---- MODULE Spec2Model ----
(***************************************************************************)
(* The article store of hawaiidisco (src/hawaiidisco/db.py), its query     *)
(* layer and the digest cache (src/hawaiidisco/digest.py).                 *)
(*                                                                         *)
(* Text values are sequences of one-character strings, so that LIKE,       *)
(* str.replace, str.split and str.strip are computed character by          *)
(* character.  Times are integers; the clock `now` stands for both         *)
(* datetime.now() and SQLite's CURRENT_TIMESTAMP.                          *)
(***************************************************************************)
EXTENDS Integers, Sequences, FiniteSets, TLC

VARIABLES
    articles,    \* table articles: a set of rows
    bookmarks,   \* table bookmarks: a set of rows
    bm_seq,      \* AUTOINCREMENT counter of bookmarks.id
    digests,     \* table digests: a set of rows
    dg_seq,      \* AUTOINCREMENT counter of digests.id
    now,         \* the wall clock
    last,        \* the last call: [op, arg, ret]
    pc,          \* per thread: position inside its Store call
    wlock,       \* the thread holding SQLite's write lock, or NoThread
    tx,          \* per thread: the uncommitted tables of its connection
    conns,       \* per thread: its thread-local connection and how many it made
    tret         \* per thread: what its call returned or raised

vars == <<articles, bookmarks, bm_seq, digests, dg_seq, now, last,
          pc, wlock, tx, conns, tret>>

storeVars == <<articles, bookmarks, bm_seq>>
digestVars == <<digests, dg_seq>>
threadVars == <<pc, wlock, tx, conns, tret>>

-----------------------------------------------------------------------------
(* Bounds of the model *)

\* AUTOINCREMENT values handed out to bookmark rows before the model stops toggling on
MaxBookmarkSeq == 2
\* last clock value the model ticks to
MaxTime == 3
\* clock ticks in one day
TicksPerDay == 2
\* digests rows the model lets be saved
MaxDigests == 2
\* writer threads of the concurrent scenario (each has one reader beside it)
NumWriters == 3

-----------------------------------------------------------------------------
(* SQL values *)

\* SQL NULL / Python None in a text column: a token that is no character sequence
\* over the alphabet
NULL == <<"NULL">>
\* SQL NULL / Python None in a DATETIME column
NULLT == -1

\* bool(row["is_read"]), bool(row["is_bookmarked"])
Bool(x) == x # 0
\* int(new_state)
BoolToInt(b) == IF b THEN 1 ELSE 0

\* Python truthiness of an optional string: `if search:`, `if not content:`
Truthy(s) == s # NULL /\ s # <<>>

-----------------------------------------------------------------------------
(* Python string functions used by the Store *)

\* whitespace removed by str.strip()
IsSpace(c) == c = " "

RECURSIVE LStrip(_)
LStrip(s) == IF s # <<>> /\ IsSpace(Head(s)) THEN LStrip(Tail(s)) ELSE s

RECURSIVE RStrip(_)
RStrip(s) ==
    IF s # <<>> /\ IsSpace(s[Len(s)]) THEN RStrip(SubSeq(s, 1, Len(s) - 1)) ELSE s

\* t.strip()
Strip(s) == RStrip(LStrip(s))

\* ",".join(parts)
RECURSIVE Join(_)
Join(parts) ==
    IF parts = <<>> THEN <<>>
    ELSE IF Len(parts) = 1 THEN parts[1]
    ELSE parts[1] \o <<",">> \o Join(Tail(parts))

\* s.split(","): the pieces between commas, empty pieces kept
RECURSIVE SplitFrom(_, _)
SplitFrom(s, cur) ==
    IF s = <<>> THEN <<cur>>
    ELSE IF Head(s) = "," THEN <<cur>> \o SplitFrom(Tail(s), <<>>)
    ELSE SplitFrom(Tail(s), Append(cur, Head(s)))

Split(s) == SplitFrom(s, <<>>)

\* [t.strip() for t in parts if t.strip()]
RECURSIVE StripNonEmpty(_)
StripNonEmpty(parts) ==
    IF parts = <<>> THEN <<>>
    ELSE IF Strip(Head(parts)) # <<>>
         THEN <<Strip(Head(parts))>> \o StripNonEmpty(Tail(parts))
         ELSE StripNonEmpty(Tail(parts))

\* set_bookmark_tags without the "or None": an empty join is stored as ''
TagsValueEmptyString(tags) == Join(StripNonEmpty(tags))

\* the value set_bookmark_tags stores:
\* ",".join(t.strip() for t in tags if t.strip()) or None
TagsValue(tags) ==
    IF Join(StripNonEmpty(tags)) = <<>> THEN NULL ELSE Join(StripNonEmpty(tags))

\* the list get_bookmark_tags builds from a stored value
TagsList(value) == IF ~Truthy(value) THEN <<>> ELSE StripNonEmpty(Split(value))

-----------------------------------------------------------------------------
(* SQL statements of the Store, as functions of the tables *)

\* the row INSERT ... (id, feed_name, title, link, description, published_at)
\* creates: the other columns take their schema defaults
NewArticleRow(id, feed, title, link, desc, pub, clock) ==
    [id |-> id, feed_name |-> feed, title |-> title, link |-> link,
     description |-> desc, published_at |-> pub, fetched_at |-> clock,
     is_read |-> 0, is_bookmarked |-> 0, insight |-> NULL,
     translated_title |-> NULL, translated_desc |-> NULL,
     translated_body |-> NULL]

\* INSERT OR REPLACE in place of INSERT OR IGNORE: the last writer wins
InsertOrReplace(T, row) == {r \in T : r.id # row.id} \cup {row}

\* INSERT OR IGNORE INTO articles: id is the PRIMARY KEY
InsertOrIgnore(T, row) ==
    IF \E r \in T : r.id = row.id THEN T ELSE T \cup {row}

\* SELECT * FROM articles WHERE id = ?
RowsById(T, id) == {r \in T : r.id = id}

\* UPDATE articles SET is_read = 1 WHERE id = ?
UpdateRead(T, id) ==
    {IF r.id = id THEN [r EXCEPT !.is_read = 1] ELSE r : r \in T}

\* UPDATE articles SET is_bookmarked = ? WHERE id = ?
UpdateBookmarked(T, id, v) ==
    {IF r.id = id THEN [r EXCEPT !.is_bookmarked = v] ELSE r : r \in T}

\* UPDATE articles SET insight = ? WHERE id = ?
UpdateInsight(T, id, text) ==
    {IF r.id = id THEN [r EXCEPT !.insight = text] ELSE r : r \in T}

\* UPDATE articles SET translated_title = ?, translated_desc = ? WHERE id = ?
UpdateTranslation(T, id, title, desc) ==
    {IF r.id = id
     THEN [r EXCEPT !.translated_title = title, !.translated_desc = desc]
     ELSE r : r \in T}

\* UPDATE articles SET translated_body = ? WHERE id = ?
UpdateTranslatedBody(T, id, body) ==
    {IF r.id = id THEN [r EXCEPT !.translated_body = body] ELSE r : r \in T}

\* toggling on without the INSERT INTO bookmarks
InsertBookmarkSkipped(B, seq, id, clock) == B

\* a new bookmarks row that starts with a memo and tags
InsertBookmarkWithMemo(B, seq, id, clock) ==
    B \cup {[id |-> seq + 1, article_id |-> id, bookmarked_at |-> clock,
             tags |-> <<"t">>, memo |-> <<"m">>]}

\* INSERT INTO bookmarks (article_id) VALUES (?)
InsertBookmark(B, seq, id, clock) ==
    B \cup {[id |-> seq + 1, article_id |-> id, bookmarked_at |-> clock,
             tags |-> NULL, memo |-> NULL]}

\* toggling off without the DELETE FROM bookmarks
DeleteBookmarkKept(B, id) == B

\* DELETE FROM bookmarks WHERE article_id = ?
DeleteBookmark(B, id) == {b \in B : b.article_id # id}

\* the memo stored in a new bookmarks row when the article has none
UpdateMemoOrInsert(B, id, memo) ==
    IF \E b \in B : b.article_id = id
    THEN {IF b.article_id = id THEN [b EXCEPT !.memo = memo] ELSE b : b \in B}
    ELSE B \cup {[id |-> 0, article_id |-> id, bookmarked_at |-> 0,
                  tags |-> NULL, memo |-> memo]}

\* UPDATE bookmarks SET memo = ? WHERE article_id = ?
UpdateMemo(B, id, memo) ==
    {IF b.article_id = id THEN [b EXCEPT !.memo = memo] ELSE b : b \in B}

\* UPDATE bookmarks SET tags = ? WHERE article_id = ?
UpdateTags(B, id, value) ==
    {IF b.article_id = id THEN [b EXCEPT !.tags = value] ELSE b : b \in B}

\* DELETE FROM articles WHERE feed_name = ?
DeleteArticlesOfFeed(T, feed) == {r \in T : r.feed_name # feed}

\* the bookmarks DELETE issued after the articles DELETE: its subselect finds
\* no article of the feed any more
DeleteBookmarksAfterArticles(B, T, feed) ==
    {b \in B : ~\E r \in DeleteArticlesOfFeed(T, feed) :
                    r.feed_name = feed /\ r.id = b.article_id}

\* DELETE FROM bookmarks WHERE article_id IN
\*   (SELECT id FROM articles WHERE feed_name = ?)
DeleteBookmarksOfFeed(B, T, feed) ==
    {b \in B : ~\E r \in T : r.feed_name = feed /\ r.id = b.article_id}

-----------------------------------------------------------------------------
(* SQLite's LIKE and the queries built on it *)

\* LIKE folds the case of ASCII letters (no PRAGMA case_sensitive_like is set)
Lower(c) ==
    CASE c = "A" -> "a"
      [] c = "B" -> "b"
      [] c = "P" -> "p"
      [] OTHER -> c

NoEscape == "none"

\* s LIKE p [ESCAPE esc]: % matches any run of characters, _ any one character,
\* the character after esc matches itself; letters match without regard to case
RECURSIVE Like(_, _, _)
Like(s, p, esc) ==
    IF p = <<>> THEN s = <<>>
    ELSE IF esc # NoEscape /\ Head(p) = esc
    THEN /\ Len(p) >= 2
         /\ s # <<>>
         /\ Lower(Head(s)) = Lower(p[2])
         /\ Like(Tail(s), Tail(Tail(p)), esc)
    ELSE IF Head(p) = "%"
    THEN \/ Like(s, Tail(p), esc)
         \/ (s # <<>> /\ Like(Tail(s), p, esc))
    ELSE IF Head(p) = "_"
    THEN s # <<>> /\ Like(Tail(s), Tail(p), esc)
    ELSE /\ s # <<>>
         /\ Lower(Head(s)) = Lower(Head(p))
         /\ Like(Tail(s), Tail(p), esc)

\* column LIKE ?: NULL LIKE anything is NULL, which WHERE treats as false
SqlLike(col, p, esc) == col # NULL /\ Like(col, p, esc)

\* s.replace(c, rep) for a one-character c
RECURSIVE Replace(_, _, _)
Replace(s, c, rep) ==
    IF s = <<>> THEN <<>>
    ELSE (IF Head(s) = c THEN rep ELSE <<Head(s)>>) \o Replace(Tail(s), c, rep)

\* the three replacements with the escape character escaped last, which
\* escapes the escapes just added
EscapeLikeBackslashLast(search) ==
    Replace(Replace(Replace(search, "%", <<"\\", "%">>),
                    "_", <<"\\", "_">>),
            "\\", <<"\\", "\\">>)

\* search.replace("\\", "\\\\").replace("%", "\\%").replace("_", "\\_")
EscapeLike(search) ==
    Replace(Replace(Replace(search, "\\", <<"\\", "\\">>),
                    "%", <<"\\", "%">>),
            "_", <<"\\", "_">>)

\* pattern = f"%{escaped}%"
SearchPattern(search) == <<"%">> \o EscapeLike(search) \o <<"%">>

\* title LIKE ? ESCAPE '\' OR description LIKE ... OR translated_desc LIKE ...
MatchesSearch(r, search) ==
    \/ SqlLike(r.title, SearchPattern(search), "\\")
    \/ SqlLike(r.description, SearchPattern(search), "\\")
    \/ SqlLike(r.insight, SearchPattern(search), "\\")
    \/ SqlLike(r.translated_title, SearchPattern(search), "\\")
    \/ SqlLike(r.translated_desc, SearchPattern(search), "\\")

\* feed_name=None, or "": `if feed_name:` adds no condition for either
NoFeed == ""

\* the enabled conditions joined with OR instead of AND
WhereAnyFilter(r, bookmarked_only, unread_only, feed_name, search) ==
    \/ ~bookmarked_only /\ ~unread_only /\ feed_name = NoFeed /\ ~Truthy(search)
    \/ bookmarked_only /\ r.is_bookmarked = 1
    \/ unread_only /\ r.is_read = 0
    \/ feed_name # NoFeed /\ r.feed_name = feed_name
    \/ Truthy(search) /\ MatchesSearch(r, search)

\* the WHERE clause get_articles builds: 1=1 AND each enabled condition
Where(r, bookmarked_only, unread_only, feed_name, search) ==
    /\ bookmarked_only => r.is_bookmarked = 1
    /\ unread_only => r.is_read = 0
    /\ feed_name # NoFeed => r.feed_name = feed_name
    /\ Truthy(search) => MatchesSearch(r, search)

\* x sorts before y under DESC: SQLite orders NULL below every value
DescBefore(x, y) == x # NULLT /\ (y = NULLT \/ x > y)

\* ORDER BY COALESCE(published_at, fetched_at) DESC
OrderBeforeCoalesce(a, b) ==
    (IF a.published_at = NULLT THEN a.fetched_at ELSE a.published_at)
        > (IF b.published_at = NULLT THEN b.fetched_at ELSE b.published_at)

\* ORDER BY published_at DESC, fetched_at DESC: a must come before b
OrderBefore(a, b) ==
    \/ DescBefore(a.published_at, b.published_at)
    \/ /\ a.published_at = b.published_at
       /\ DescBefore(a.fetched_at, b.fetched_at)

\* every order of the rows S the ORDER BY allows (rows that tie come in any order)
RECURSIVE Ordered(_)
Ordered(S) ==
    IF S = {} THEN {<<>>}
    ELSE UNION {{<<m>> \o rest : rest \in Ordered(S \ {m})} :
                m \in {x \in S : \A y \in S : ~OrderBefore(y, x)}}

\* LIMIT ?: a negative limit means no limit
Limit(rows, n) ==
    IF n < 0 \/ n >= Len(rows) THEN rows ELSE SubSeq(rows, 1, n)

\* the row lists get_articles can return
GetArticlesResults(T, bookmarked_only, unread_only, feed_name, search, limit) ==
    {Limit(rows, limit) :
        rows \in Ordered({r \in T :
                    Where(r, bookmarked_only, unread_only, feed_name, search)})}

\* b.tags = ? OR b.tags LIKE 'tag,%' OR b.tags LIKE '%,tag,%' OR b.tags LIKE '%,tag'
TagMatches(tags, tag) ==
    /\ tags # NULL
    /\ \/ tags = tag
       \/ Like(tags, tag \o <<",", "%">>, NoEscape)
       \/ Like(tags, <<"%", ",">> \o tag \o <<",", "%">>, NoEscape)
       \/ Like(tags, <<"%", ",">> \o tag, NoEscape)

\* SELECT a.* FROM articles a JOIN bookmarks b ON a.id = b.article_id WHERE ...:
\* one result row per matching pair
TagJoin(T, B, tag) ==
    {p \in {<<r, b.id>> : r \in T, b \in {x \in B : TagMatches(x.tags, tag)}} :
        \E b \in B : b.id = p[2] /\ b.article_id = p[1].id}

\* every order of the joined rows P that ORDER BY a.published_at DESC,
\* a.fetched_at DESC allows
RECURSIVE OrderedJoin(_)
OrderedJoin(P) ==
    IF P = {} THEN {<<>>}
    ELSE UNION {{<<m[1]>> \o rest : rest \in OrderedJoin(P \ {m})} :
                m \in {x \in P : \A y \in P : ~OrderBefore(y[1], x[1])}}

\* the row lists get_articles_by_tag can return
GetArticlesByTagResults(T, B, tag) == OrderedJoin(TagJoin(T, B, tag))

-----------------------------------------------------------------------------
(* Results of the Store's single-row reads *)

\* get_bookmark_memo: row["memo"] of the row fetchone() yields, None if none
MemoResults(B, id) ==
    IF {b \in B : b.article_id = id} = {} THEN {NULL}
    ELSE {b.memo : b \in {x \in B : x.article_id = id}}

\* get_bookmark_tags: the list built from the row fetchone() yields
TagsResults(B, id) ==
    IF {b \in B : b.article_id = id} = {} THEN {<<>>}
    ELSE {TagsList(b.tags) : b \in {x \in B : x.article_id = id}}

-----------------------------------------------------------------------------
(* Reads over the tags of all bookmarks *)

\* ord(c) of the characters tags are written with
Ord(c) ==
    CASE c = " " -> 32
      [] c = "%" -> 37
      [] c = "," -> 44
      [] c = "P" -> 80
      [] c = "_" -> 95
      [] c = "a" -> 97
      [] c = "b" -> 98
      [] c = "p" -> 112
      [] c = "t" -> 116

\* s < t for two str values: code point order, a proper prefix first
RECURSIVE StrLess(_, _)
StrLess(s, t) ==
    IF t = <<>> THEN FALSE
    ELSE IF s = <<>> THEN TRUE
    ELSE IF Head(s) = Head(t) THEN StrLess(Tail(s), Tail(t))
    ELSE Ord(Head(s)) < Ord(Head(t))

\* sorted(tag_set)
RECURSIVE Sorted(_)
Sorted(S) ==
    IF S = {} THEN <<>>
    ELSE LET least == CHOOSE x \in S : \A y \in S \ {x} : StrLess(x, y)
         IN <<least>> \o Sorted(S \ {least})

\* SELECT ... FROM bookmarks WHERE tags IS NOT NULL AND tags != ''
RowsWithTags(B) == {b \in B : b.tags # NULL /\ b.tags # <<>>}

\* get_all_tags: the stripped non-empty tokens of every selected row, each
\* once, sorted
GetAllTags(B) ==
    Sorted(UNION {{TagsList(b.tags)[i] : i \in DOMAIN TagsList(b.tags)} :
                      b \in RowsWithTags(B)})

\* get_all_bookmark_tags: the dicts the loop can build; of two rows of one
\* article the one the SELECT yields last stays
GetAllBookmarkTagsResults(B) ==
    LET listed == {b \in RowsWithTags(B) : TagsList(b.tags) # <<>>}
        ids == {b.article_id : b \in listed}
    IN {f \in [ids -> {TagsList(b.tags) : b \in listed}] :
           \A id \in ids :
               \E b \in listed : b.article_id = id /\ f[id] = TagsList(b.tags)}

-----------------------------------------------------------------------------
(* Threads and their connections; the initial state is the one after       *)
(* Database.__init__ on a new file, when only the constructing thread has  *)
(* a connection                                                            *)

NoThread == 0
Writers == 1..NumWriters
Readers == (NumWriters + 1)..(2 * NumWriters)
Threads == Writers \cup Readers
\* the thread that constructs the Database
MainThread == 2 * NumWriters + 1

\* a connection handle is named by the thread that made it and the number of
\* connections that thread had made; self._local.conn is None
NoConn == <<0, 0>>

\* one connection shared by all threads (self._conn in place of
\* self._local.conn): a thread without one takes any that exists
GetConnShared(C, t) ==
    IF C[t].conn # NoConn THEN C
    ELSE IF \E u \in DOMAIN C : C[u].conn # NoConn
    THEN [C EXCEPT ![t].conn =
                       C[CHOOSE u \in DOMAIN C : C[u].conn # NoConn].conn]
    ELSE [C EXCEPT ![t] = [conn |-> <<t, @.made + 1>>, made |-> @.made + 1]]

\* _get_conn by thread t: the thread-local slots afterwards; a connection is
\* made when the thread's slot is empty
GetConn(C, t) ==
    IF C[t].conn # NoConn THEN C
    ELSE [C EXCEPT ![t] = [conn |-> <<t, @.made + 1>>, made |-> @.made + 1]]

\* close() by thread t: its connection is closed and its slot emptied
CloseConn(C, t) == [C EXCEPT ![t].conn = NoConn]

Init ==
    /\ articles = {}
    /\ bookmarks = {}
    /\ bm_seq = 0
    /\ digests = {}
    /\ dg_seq = 0
    /\ now = 1
    /\ last = [op |-> "init", arg |-> NULL, ret |-> NULL]
    /\ pc = [t \in Threads |-> "start"]
    /\ wlock = NoThread
    /\ tx = [t \in Threads |-> {}]
    /\ conns = [t \in Threads \cup {MainThread} |->
                  IF t = MainThread
                  THEN [conn |-> <<MainThread, 1>>, made |-> 1]
                  ELSE [conn |-> NoConn, made |-> 0]]
    /\ tret = [t \in Threads |-> NULL]

-----------------------------------------------------------------------------
(* Store calls issued one at a time: each action is a whole call, commit included *)

upsert_article(id, feed, title, link, desc, pub) ==
    /\ articles' = InsertOrIgnore(articles,
                        NewArticleRow(id, feed, title, link, desc, pub, now))
    \* return cursor.rowcount > 0
    /\ last' = [op |-> "upsert_article", arg |-> id,
                ret |-> Cardinality(articles') - Cardinality(articles) > 0]
    /\ UNCHANGED <<bookmarks, bm_seq, digestVars, now, threadVars>>

mark_read(id) ==
    /\ articles' = UpdateRead(articles, id)
    /\ last' = [op |-> "mark_read", arg |-> id, ret |-> NULL]
    /\ UNCHANGED <<bookmarks, bm_seq, digestVars, now, threadVars>>

toggle_bookmark(id) ==
    IF RowsById(articles, id) = {}
    THEN /\ last' = [op |-> "toggle_bookmark", arg |-> id, ret |-> FALSE]
         /\ UNCHANGED <<storeVars, digestVars, now, threadVars>>
    ELSE LET article == CHOOSE r \in RowsById(articles, id) : TRUE
             new_state == ~Bool(article.is_bookmarked)
         IN /\ new_state => bm_seq < MaxBookmarkSeq
            /\ articles' = UpdateBookmarked(articles, id, BoolToInt(new_state))
            /\ IF new_state
               THEN /\ bookmarks' = InsertBookmark(bookmarks, bm_seq, id, now)
                    /\ bm_seq' = bm_seq + 1
               ELSE /\ bookmarks' = DeleteBookmark(bookmarks, id)
                    /\ bm_seq' = bm_seq
            /\ last' = [op |-> "toggle_bookmark", arg |-> id, ret |-> new_state]
            /\ UNCHANGED <<digestVars, now, threadVars>>

set_insight(id, insight) ==
    /\ articles' = UpdateInsight(articles, id, insight)
    /\ last' = [op |-> "set_insight", arg |-> id, ret |-> NULL]
    /\ UNCHANGED <<bookmarks, bm_seq, digestVars, now, threadVars>>

set_translation(id, title, desc) ==
    /\ articles' = UpdateTranslation(articles, id, title, desc)
    /\ last' = [op |-> "set_translation", arg |-> id, ret |-> NULL]
    /\ UNCHANGED <<bookmarks, bm_seq, digestVars, now, threadVars>>

set_bookmark_memo(id, memo) ==
    /\ bookmarks' = UpdateMemo(bookmarks, id, memo)
    /\ last' = [op |-> "set_bookmark_memo", arg |-> id, ret |-> NULL]
    /\ UNCHANGED <<articles, bm_seq, digestVars, now, threadVars>>

get_bookmark_memo(id) ==
    /\ \E m \in MemoResults(bookmarks, id) :
          last' = [op |-> "get_bookmark_memo", arg |-> id, ret |-> m]
    /\ UNCHANGED <<storeVars, digestVars, now, threadVars>>

set_bookmark_tags(id, tags) ==
    /\ bookmarks' = UpdateTags(bookmarks, id, TagsValue(tags))
    /\ last' = [op |-> "set_bookmark_tags", arg |-> id, ret |-> NULL,
                tags |-> tags]
    /\ UNCHANGED <<articles, bm_seq, digestVars, now, threadVars>>

get_bookmark_tags(id) ==
    /\ \E tags \in TagsResults(bookmarks, id) :
          last' = [op |-> "get_bookmark_tags", arg |-> id, ret |-> tags]
    /\ UNCHANGED <<storeVars, digestVars, now, threadVars>>

get_all_tags ==
    /\ last' = [op |-> "get_all_tags", arg |-> NULL,
                ret |-> GetAllTags(bookmarks)]
    /\ UNCHANGED <<storeVars, digestVars, now, threadVars>>

get_all_bookmark_tags ==
    /\ \E result \in GetAllBookmarkTagsResults(bookmarks) :
          last' = [op |-> "get_all_bookmark_tags", arg |-> NULL,
                   ret |-> result]
    /\ UNCHANGED <<storeVars, digestVars, now, threadVars>>

delete_articles_by_feed(feed) ==
    /\ bookmarks' = DeleteBookmarksOfFeed(bookmarks, articles, feed)
    /\ articles' = DeleteArticlesOfFeed(articles, feed)
    \* return cursor.rowcount of the DELETE FROM articles
    /\ last' = [op |-> "delete_articles_by_feed", arg |-> feed,
                ret |-> Cardinality(articles) - Cardinality(articles')]
    /\ UNCHANGED <<bm_seq, digestVars, now, threadVars>>

-----------------------------------------------------------------------------
(* The calls of the sequential Store specification and their inputs *)

Ids == {"a1", "a2"}
Feeds == {"f1", "f2"}

\* two feed entries that differ in every column upsert_article writes
Entries ==
    {[title |-> <<"a">>, link |-> <<"x">>, description |-> NULL,
      published_at |-> NULLT],
     [title |-> <<"b">>, link |-> <<"y">>, description |-> <<"d">>,
      published_at |-> 1]}

Insights == {<<"i">>}
Memos == {<<"m">>}
TagLists == {<<>>, << <<"t">> >>}

Upsert ==
    \E id \in Ids, feed \in Feeds, e \in Entries :
        upsert_article(id, feed, e.title, e.link, e.description, e.published_at)
MarkRead == \E id \in Ids : mark_read(id)
ToggleBookmark == \E id \in Ids : toggle_bookmark(id)
SetInsight == \E id \in Ids, i \in Insights : set_insight(id, i)
SetBookmarkMemo == \E id \in Ids, m \in Memos : set_bookmark_memo(id, m)
GetBookmarkMemo == \E id \in Ids : get_bookmark_memo(id)
SetBookmarkTags == \E id \in Ids, tags \in TagLists : set_bookmark_tags(id, tags)
GetBookmarkTags == \E id \in Ids : get_bookmark_tags(id)
DeleteArticlesByFeed == \E feed \in Feeds : delete_articles_by_feed(feed)

Next ==
    \/ Upsert
    \/ MarkRead
    \/ ToggleBookmark
    \/ SetInsight
    \/ SetBookmarkMemo
    \/ GetBookmarkMemo
    \/ SetBookmarkTags
    \/ GetBookmarkTags
    \/ DeleteArticlesByFeed

Spec == Init /\ [][Next]_vars

-----------------------------------------------------------------------------
(* Queries, and the passing of time *)

get_articles(bookmarked_only, unread_only, feed_name, search, limit) ==
    /\ \E rows \in GetArticlesResults(articles, bookmarked_only, unread_only,
                                      feed_name, search, limit) :
          last' = [op |-> "get_articles",
                   arg |-> [bookmarked_only |-> bookmarked_only,
                            unread_only |-> unread_only,
                            feed_name |-> feed_name,
                            search |-> search,
                            limit |-> limit],
                   ret |-> rows]
    /\ UNCHANGED <<storeVars, digestVars, now, threadVars>>

get_articles_by_tag(tag) ==
    /\ \E rows \in GetArticlesByTagResults(articles, bookmarks, tag) :
          last' = [op |-> "get_articles_by_tag", arg |-> tag, ret |-> rows]
    /\ UNCHANGED <<storeVars, digestVars, now, threadVars>>

\* the clock advances between calls
Tick ==
    /\ now < MaxTime
    /\ now' = now + 1
    /\ last' = [op |-> "tick", arg |-> NULL, ret |-> NULL]
    /\ UNCHANGED <<storeVars, digestVars, threadVars>>

\* limit: int = 200
DefaultLimit == 200

\* all character sequences over C of length at most n
RECURSIVE Strings(_, _)
Strings(C, n) ==
    IF n = 0 THEN {<<>>}
    ELSE Strings(C, n - 1) \cup
         {Append(w, c) : w \in {x \in Strings(C, n - 1) : Len(x) = n - 1}, c \in C}

-----------------------------------------------------------------------------
(* Free-text search (specification SpecSearch) *)

\* longest search string tried
MaxSearchLen == 2

SearchChars == {"a", "A", "%", "_", "\\"}

\* titles and descriptions with and without LIKE metacharacters
SearchEntries ==
    {[title |-> <<"a", "%", "b">>, description |-> NULL],
     [title |-> <<"A", "b">>, description |-> <<"b", "_">>],
     [title |-> <<"\\", "b">>, description |-> NULL]}

UpsertText ==
    \E id \in Ids, e \in SearchEntries :
        upsert_article(id, "f1", e.title, <<"x">>, e.description, NULLT)
SetInsightText == set_insight("a1", <<"%", "a">>)
SetTranslationText == set_translation("a1", <<"_", "A">>, <<"\\">>)
SearchStrings == Strings(SearchChars, MaxSearchLen)
Search ==
    \E s \in SearchStrings :
        get_articles(FALSE, FALSE, NoFeed, s, DefaultLimit)

NextSearch ==
    \/ UpsertText
    \/ SetInsightText
    \/ SetTranslationText
    \/ Search

SpecSearch == Init /\ [][NextSearch]_vars

-----------------------------------------------------------------------------
(* Ordering of get_articles (specification SpecOrder) *)

OrderIds == {"a1", "a2", "a3"}
PublishTimes == {NULLT, 1, 2, 3}

UpsertDated ==
    \E id \in OrderIds, pub \in PublishTimes :
        upsert_article(id, "f1", <<"a">>, <<"x">>, NULL, pub)
ListAll == get_articles(FALSE, FALSE, NoFeed, NULL, DefaultLimit)

NextOrder ==
    \/ UpsertDated
    \/ Tick
    \/ ListAll

SpecOrder == Init /\ [][NextOrder]_vars

-----------------------------------------------------------------------------
(* Filter combinations of get_articles (specification SpecFilter) *)

FilterEntries == {<<"a">>, <<"b">>}
FilterFeeds == {NoFeed, "f1", "f2"}
FilterSearches == {NULL, <<"a">>}
FilterLimits == {1, DefaultLimit}

UpsertFiltered ==
    \E id \in Ids, feed \in Feeds, title \in FilterEntries :
        upsert_article(id, feed, title, <<"x">>, NULL, NULLT)
Filter ==
    \E b \in BOOLEAN, u \in BOOLEAN, f \in FilterFeeds, s \in FilterSearches,
       n \in FilterLimits :
        get_articles(b, u, f, s, n)

NextFilter ==
    \/ UpsertFiltered
    \/ MarkRead
    \/ ToggleBookmark
    \/ Filter

SpecFilter == Init /\ [][NextFilter]_vars

-----------------------------------------------------------------------------
(* Tag lookup (specification SpecTags) *)

\* longest tag looked up
MaxTagLen == 2

TagChars == {"p", "P", "t", "%", "_"}

\* tag lists given to set_bookmark_tags: "pt,t" stands for "python,tech"
TagListPool ==
    {<<>>,
     << <<"p", "t">>, <<"t">> >>,
     << <<"t">> >>,
     << <<" ", "p">>, <<" ">> >>}

UpsertPlain ==
    \E id \in Ids : upsert_article(id, "f1", <<"a">>, <<"x">>, NULL, NULLT)
SetTagsFromPool ==
    \E id \in Ids, tags \in TagListPool : set_bookmark_tags(id, tags)
TagStrings == Strings(TagChars, MaxTagLen) \ {<<>>}
ByTag == \E tag \in TagStrings : get_articles_by_tag(tag)

NextTags ==
    \/ UpsertPlain
    \/ ToggleBookmark
    \/ SetTagsFromPool
    \/ ByTag

SpecTags == Init /\ [][NextTags]_vars

-----------------------------------------------------------------------------
(* Tag lists written and read back (specification SpecTagList) *)

\* tag strings given to set_bookmark_tags: blank, padded, plain, with a comma
TagInputStrings ==
    {<<>>, <<" ">>, <<"a">>, <<" ", "a">>, <<"a", " ">>, <<"a", "a">>,
     <<",">>, <<"a", ",">>, <<",", " ">>, <<"a", ",", "a">>}

\* lists of no, one and two tag strings
TagInputs ==
    {<<>>} \cup {<<s>> : s \in TagInputStrings}
           \cup {<<s, t>> : s \in TagInputStrings, t \in {<<"a">>, <<" ">>, <<"a", "a">>}}

SetTagsFromInputs ==
    \E id \in Ids, tags \in TagInputs : set_bookmark_tags(id, tags)

NextTagList ==
    \/ UpsertPlain
    \/ ToggleBookmark
    \/ SetTagsFromInputs
    \/ GetBookmarkTags
    \/ get_all_tags
    \/ get_all_bookmark_tags

SpecTagList == Init /\ [][NextTagList]_vars

-----------------------------------------------------------------------------
(* The digest cache (specification SpecDigest) *)

\* save_digest: INSERT INTO digests (period_days, article_count, content)
SaveDigest(Dg, seq, period_days, article_count, content, clock) ==
    Dg \cup {[id |-> seq + 1, period_days |-> period_days,
              article_count |-> article_count, content |-> content,
              created_at |-> clock]}

\* get_latest_digest: the rows of the period that no row of the period is
\* newer than (get_latest_digest returns one of them, or None if there is none)
LatestDigests(Dg, period_days) ==
    {d \in Dg : /\ d.period_days = period_days
                /\ \A e \in Dg : e.period_days = period_days
                                    => e.created_at <= d.created_at}

\* get_recent_articles(days, limit): the articles of the last `days` days,
\* most recent first, at most `limit` of them
RecentArticles(T, days, limit, clock) ==
    LET recent == {r \in T :
                      (IF r.published_at = NULLT THEN r.fetched_at
                       ELSE r.published_at) >= clock - days * TicksPerDay}
    IN IF Cardinality(recent) <= limit THEN {recent}
       ELSE {S \in SUBSET recent :
                /\ Cardinality(S) = limit
                /\ \A x \in S, y \in recent \ S :
                      (IF x.published_at = NULLT THEN x.fetched_at
                       ELSE x.published_at)
                        >= (IF y.published_at = NULLT THEN y.fetched_at
                            ELSE y.published_at)}

\* get_recent_bookmarked_articles(days), then articles[:max_articles]: the join
\* rows with b.bookmarked_at >= datetime('now', '-N days'), ordered by
\* b.bookmarked_at DESC, b.id DESC, cut to the first max_articles
RecentBookmarked(T, B, days, max_articles, clock) ==
    LET joined == {<<r, b>> \in T \X B :
                      /\ r.id = b.article_id
                      /\ b.bookmarked_at >= clock - days * TicksPerDay}
        Later(p, q) ==
            \/ p[2].bookmarked_at > q[2].bookmarked_at
            \/ p[2].bookmarked_at = q[2].bookmarked_at /\ p[2].id > q[2].id
    IN {p \in joined :
           Cardinality({q \in joined : Later(q, p)}) < max_articles}

\* bookmarked_only ignored: the candidates are always the recent articles
DigestCandidatesAll(T, B, clock, period_days, max_articles, bookmarked_only) ==
    RecentArticles(T, period_days, max_articles, clock)

\* the candidate lists get_or_generate_digest can gather, as sets of rows
DigestCandidates(T, B, clock, period_days, max_articles, bookmarked_only) ==
    IF bookmarked_only
    THEN {RecentBookmarked(T, B, period_days, max_articles, clock)}
    ELSE RecentArticles(T, period_days, max_articles, clock)

\* the cache condition inverted: only a digest older than a day is served
IsFreshInverted(d, clock) == clock - d.created_at >= TicksPerDay

\* age = datetime.now() - cached.created_at; age < timedelta(days=1)
IsFresh(d, clock) == clock - d.created_at < TicksPerDay

\* content = generate_digest(...) was not reached
NotCalled == <<"not called">>

\* generate_digest: None when the provider is unavailable, otherwise what
\* provider.generate returns
GenerateDigest(available, generated) == IF available THEN generated ELSE NULL

\* the candidates handed to the provider without the check that there are any
DigestOutcomeNoEmptyCheck(cached, candidates, available, generated, clock) ==
    IF cached # {} /\ \E d \in cached : IsFresh(d, clock)
    THEN {[status |-> "ok", content |-> d.content, count |-> d.article_count,
           ai |-> 0, gen |-> NotCalled, saved |-> FALSE] : d \in {x \in cached : IsFresh(x, clock)}}
    ELSE IF ~Truthy(GenerateDigest(available, generated))
    THEN {[status |-> "generation_failed", content |-> NULL, count |-> 0,
           ai |-> BoolToInt(available),
           gen |-> GenerateDigest(available, generated), saved |-> FALSE]}
    ELSE {[status |-> "ok", content |-> generated,
           count |-> Cardinality(candidates), ai |-> 1,
           gen |-> GenerateDigest(available, generated), saved |-> TRUE]}

\* the row saved before the generated content is looked at
DigestOutcomeSaveFirst(cached, candidates, available, generated, clock) ==
    IF cached # {} /\ \E d \in cached : IsFresh(d, clock)
    THEN {[status |-> "ok", content |-> d.content, count |-> d.article_count,
           ai |-> 0, gen |-> NotCalled, saved |-> FALSE] : d \in {x \in cached : IsFresh(x, clock)}}
    ELSE IF candidates = {}
    THEN {[status |-> "no_articles", content |-> NULL, count |-> 0,
           ai |-> 0, gen |-> NotCalled, saved |-> FALSE]}
    ELSE IF ~Truthy(GenerateDigest(available, generated))
    THEN {[status |-> "generation_failed", content |-> NULL,
           count |-> Cardinality(candidates),
           ai |-> BoolToInt(available),
           gen |-> GenerateDigest(available, generated), saved |-> TRUE]}
    ELSE {[status |-> "ok", content |-> generated,
           count |-> Cardinality(candidates), ai |-> 1,
           gen |-> GenerateDigest(available, generated), saved |-> TRUE]}

\* get_or_generate_digest, given the rows get_latest_digest may return and the
\* candidates: what it returns or raises, whether it called provider.generate
\* and whether it saved a row
DigestOutcome(cached, candidates, available, generated, clock) ==
    IF cached # {} /\ \E d \in cached : IsFresh(d, clock)
    THEN {[status |-> "ok", content |-> d.content, count |-> d.article_count,
           ai |-> 0, gen |-> NotCalled, saved |-> FALSE] : d \in {x \in cached : IsFresh(x, clock)}}
    ELSE IF candidates = {}
    THEN {[status |-> "no_articles", content |-> NULL, count |-> 0,
           ai |-> 0, gen |-> NotCalled, saved |-> FALSE]}
    ELSE IF ~Truthy(GenerateDigest(available, generated))
    THEN {[status |-> "generation_failed", content |-> NULL, count |-> 0,
           ai |-> BoolToInt(available),
           gen |-> GenerateDigest(available, generated), saved |-> FALSE]}
    ELSE {[status |-> "ok", content |-> generated,
           count |-> Cardinality(candidates), ai |-> 1,
           gen |-> GenerateDigest(available, generated), saved |-> TRUE]}

\* the cache consulted only by calls that are not bookmarked-only
get_or_generate_digest_by_config(period_days, max_articles, bm_only, available, generated) ==
    \E candidates \in DigestCandidates(articles, bookmarks, now, period_days,
                                       max_articles, bm_only) :
    \E out \in DigestOutcome(IF bm_only THEN {} ELSE LatestDigests(digests, period_days), candidates,
                             available, generated, now) :
        /\ out.saved => dg_seq < MaxDigests
        /\ IF out.saved
           THEN /\ digests' = SaveDigest(digests, dg_seq, period_days,
                                         out.count, out.content, now)
                /\ dg_seq' = dg_seq + 1
           ELSE UNCHANGED <<digests, dg_seq>>
        /\ last' = [op |-> "get_or_generate_digest",
                    arg |-> [period_days |-> period_days,
                             max_articles |-> max_articles,
                             bookmarked_only |-> bm_only],
                    ret |-> [status |-> out.status, content |-> out.content,
                             count |-> out.count, ai |-> out.ai,
                             gen |-> out.gen]]
        /\ UNCHANGED <<storeVars, now, threadVars>>

get_or_generate_digest(period_days, max_articles, bm_only, available, generated) ==
    \E candidates \in DigestCandidates(articles, bookmarks, now, period_days,
                                       max_articles, bm_only) :
    \E out \in DigestOutcome(LatestDigests(digests, period_days), candidates,
                             available, generated, now) :
        /\ out.saved => dg_seq < MaxDigests
        /\ IF out.saved
           THEN /\ digests' = SaveDigest(digests, dg_seq, period_days,
                                         out.count, out.content, now)
                /\ dg_seq' = dg_seq + 1
           ELSE UNCHANGED <<digests, dg_seq>>
        /\ last' = [op |-> "get_or_generate_digest",
                    arg |-> [period_days |-> period_days,
                             max_articles |-> max_articles,
                             bookmarked_only |-> bm_only],
                    ret |-> [status |-> out.status, content |-> out.content,
                             count |-> out.count, ai |-> out.ai,
                             gen |-> out.gen]]
        /\ UNCHANGED <<storeVars, now, threadVars>>

Periods == {1, 2}
MaxArticlesChoices == {1, 2}
\* the provider: unavailable, or available and returning None, "" or text
Providers ==
    {[available |-> FALSE, generated |-> NULL],
     [available |-> TRUE, generated |-> NULL],
     [available |-> TRUE, generated |-> <<>>],
     [available |-> TRUE, generated |-> <<"x">>]}

UpsertRecent ==
    \E id \in Ids : upsert_article(id, "f1", <<"a">>, <<"x">>, NULL, NULLT)
ToggleFirst == toggle_bookmark("a1")
GetOrGenerateDigest ==
    \E p \in Periods, m \in MaxArticlesChoices, b \in BOOLEAN,
       provider \in Providers :
        get_or_generate_digest(p, m, b, provider.available, provider.generated)

NextDigest ==
    \/ UpsertRecent
    \/ ToggleFirst
    \/ Tick
    \/ GetOrGenerateDigest

SpecDigest == Init /\ [][NextDigest]_vars

-----------------------------------------------------------------------------
(* The feed fetcher (specification SpecFetch)                              *)
(*                                                                         *)
(* A feed entry is a record of the fields fetch_feed reads; a field the    *)
(* entry lacks is NULL (NULLT for a parsed time).  `raises` marks an entry *)
(* whose processing raises, as a guid that cannot be encoded does in       *)
(* _make_article_id, or a database error in upsert_article.                *)
(***************************************************************************)

\* description[:500]
MaxDescription == 500

\* t("no_title")
NoTitle == <<"n", "o">>

\* entry.get("id") or entry.get("link", "")
Guid(entry) ==
    IF Truthy(entry.id) THEN entry.id
    ELSE IF entry.link = NULL THEN <<>> ELSE entry.link

\* hashlib.sha256(f"{feed_name}:{guid}".encode()).hexdigest()[:16]; the
\* digest is represented by the text it is the digest of
MakeArticleId(entry, feed_name) == feed_name \o <<":">> \o Guid(entry)

\* _parse_published: published_parsed, else updated_parsed, else None
ParsePublished(entry) ==
    IF entry.published_parsed # NULLT THEN entry.published_parsed
    ELSE entry.updated_parsed

\* position of the first ">" of s, 0 if there is none
RECURSIVE FirstClose(_, _)
FirstClose(s, i) ==
    IF i > Len(s) THEN 0
    ELSE IF s[i] = ">" THEN i
    ELSE FirstClose(s, i + 1)

\* re.sub(r"<[^>]+>", "", description)
RECURSIVE StripTags(_)
StripTags(s) ==
    IF s = <<>> THEN <<>>
    ELSE IF Head(s) = "<" /\ FirstClose(s, 2) >= 3
         THEN StripTags(SubSeq(s, FirstClose(s, 2) + 1, Len(s)))
         ELSE <<Head(s)>> \o StripTags(Tail(s))

\* entry.get("summary", entry.get("description", "")), tags stripped, trimmed
\* and cut to 500 characters
Description(entry) ==
    LET raw == IF entry.summary # NULL THEN entry.summary
               ELSE IF entry.description # NULL THEN entry.description
               ELSE <<>>
        text == Strip(StripTags(raw))
    IN IF ~Truthy(raw) THEN raw
       ELSE IF Len(text) > MaxDescription
            THEN SubSeq(text, 1, MaxDescription) \o <<".", ".", ".">>
            ELSE text

\* the row fetch_feed hands to upsert_article for an entry
EntryRow(entry, feed_name, clock) ==
    NewArticleRow(MakeArticleId(entry, feed_name), feed_name,
                  IF entry.title = NULL THEN NoTitle ELSE entry.title,
                  IF entry.link = NULL THEN <<>> ELSE entry.link,
                  Description(entry), ParsePublished(entry), clock)

\* the loop of fetch_feed with every entry counted, new or not
RECURSIVE ReconcileCountAll(_, _, _, _)
ReconcileCountAll(T, entries, feed_name, clock) ==
    IF entries = <<>> THEN [T |-> T, new_count |-> 0, raised |-> FALSE]
    ELSE IF Head(entries).raises
    THEN [T |-> T, new_count |-> 0, raised |-> TRUE]
    ELSE LET T1 == InsertOrIgnore(T, EntryRow(Head(entries), feed_name, clock))
             rest == ReconcileCountAll(T1, Tail(entries), feed_name, clock)
         IN [rest EXCEPT !.new_count = @ + 1]

\* for entry in parsed.entries: upsert_article, new_count += 1 if is_new.
\* The rows inserted before an entry raises stay (each upsert commits); the
\* count is lost with the exception.
RECURSIVE Reconcile(_, _, _, _)
Reconcile(T, entries, feed_name, clock) ==
    IF entries = <<>> THEN [T |-> T, new_count |-> 0, raised |-> FALSE]
    ELSE IF Head(entries).raises
    THEN [T |-> T, new_count |-> 0, raised |-> TRUE]
    ELSE LET T1 == InsertOrIgnore(T, EntryRow(Head(entries), feed_name, clock))
             is_new == T1 # T
             rest == Reconcile(T1, Tail(entries), feed_name, clock)
         IN IF rest.raised THEN rest
            ELSE [rest EXCEPT !.new_count = @ + BoolToInt(is_new)]

\* feedparser.parse(url), and again with the SSL handler when the first
\* result is bozo and has no entries
Parsed(response) ==
    IF response.first.bozo /\ response.first.entries = <<>>
    THEN response.retry
    ELSE response.first

\* fetch_feed(feed_config, db)
FetchFeed(T, feed, clock) ==
    IF feed.response.parse_raises
    THEN [T |-> T, new_count |-> 0, raised |-> TRUE]
    ELSE Reconcile(T, Parsed(feed.response).entries, feed.name, clock)

\* the loop of fetch_all_feeds without its try/except: the first failure
\* ends the batch and reaches the caller
RECURSIVE FetchAllFeedsNoCatch(_, _, _)
FetchAllFeedsNoCatch(T, feeds, clock) ==
    IF feeds = <<>>
    THEN [T |-> T, total_new |-> 0, attempted |-> <<>>, raised |-> FALSE]
    ELSE LET one == FetchFeed(T, Head(feeds), clock)
             rest == FetchAllFeedsNoCatch(one.T, Tail(feeds), clock)
         IN IF one.raised
            THEN [T |-> one.T, total_new |-> 0,
                  attempted |-> <<Head(feeds).name>>, raised |-> TRUE]
            ELSE [rest EXCEPT !.total_new = @ + one.new_count,
                              !.attempted = <<Head(feeds).name>> \o @]

\* fetch_all_feeds: total_new += fetch_feed(...) inside try/except Exception;
\* `attempted` lists the feeds fetch_feed was called for
RECURSIVE FetchAllFeeds(_, _, _)
FetchAllFeeds(T, feeds, clock) ==
    IF feeds = <<>>
    THEN [T |-> T, total_new |-> 0, attempted |-> <<>>, raised |-> FALSE]
    ELSE LET one == FetchFeed(T, Head(feeds), clock)
             rest == FetchAllFeeds(one.T, Tail(feeds), clock)
         IN [rest EXCEPT !.total_new =
                             @ + (IF one.raised THEN 0 ELSE one.new_count),
                         !.attempted = <<Head(feeds).name>> \o @]

fetch_all_feeds(feeds) ==
    LET result == FetchAllFeeds(articles, feeds, now)
    IN /\ articles' = result.T
       /\ last' = [op |-> "fetch_all_feeds", arg |-> feeds,
                   ret |-> [total_new |-> result.total_new,
                            attempted |-> result.attempted,
                            raised |-> result.raised]]
       /\ UNCHANGED <<bookmarks, bm_seq, digestVars, now, threadVars>>

\* an entry with a guid, a link, a title, a summary with a tag in it and a
\* publication time
EntryFull ==
    [id |-> <<"c">>, link |-> <<"x">>, title |-> <<"a">>,
     summary |-> <<"<", "b", ">", "t", " ">>, description |-> NULL,
     published_parsed |-> 1, updated_parsed |-> NULLT, raises |-> FALSE]
\* an entry with nothing but a link and an update time
EntryLinkOnly ==
    [id |-> NULL, link |-> <<"b", ":", "c">>, title |-> NULL,
     summary |-> NULL, description |-> NULL,
     published_parsed |-> NULLT, updated_parsed |-> 2, raises |-> FALSE]
\* an entry whose processing raises
EntryRaising ==
    [id |-> <<"d">>, link |-> NULL, title |-> <<"d">>,
     summary |-> NULL, description |-> <<"<", ">">>,
     published_parsed |-> NULLT, updated_parsed |-> NULLT, raises |-> TRUE]

ParseResult(bozo, entries) == [bozo |-> bozo, entries |-> entries]
Response(first, retry, parse_raises) ==
    [first |-> first, retry |-> retry, parse_raises |-> parse_raises]

\* what the network answers for a feed: two entries
ResponseTwo ==
    Response(ParseResult(FALSE, <<EntryFull, EntryLinkOnly>>),
             ParseResult(FALSE, <<>>), FALSE)
\* one entry twice, in a result flagged bozo
ResponseTwice ==
    Response(ParseResult(TRUE, <<EntryFull, EntryFull>>),
             ParseResult(FALSE, <<>>), FALSE)
\* an entry that raises between two others
ResponseRaisingEntry ==
    Response(ParseResult(FALSE, <<EntryFull, EntryRaising, EntryLinkOnly>>),
             ParseResult(FALSE, <<>>), FALSE)
\* a parse that raises
ResponseRaisingParse ==
    Response(ParseResult(FALSE, <<>>), ParseResult(FALSE, <<>>), TRUE)
\* a bozo result without entries, then one entry on the retry
ResponseRetry ==
    Response(ParseResult(TRUE, <<>>),
             ParseResult(FALSE, <<EntryLinkOnly>>), FALSE)

\* FeedConfig(name, url) with what the network answers for the url
Feed(name, response) == [name |-> name, response |-> response]

\* feeds: list[FeedConfig]
FeedLists ==
    {<<>>,
     <<Feed(<<"a">>, ResponseTwo)>>,
     <<Feed(<<"a">>, ResponseTwice)>>,
     <<Feed(<<"a">>, ResponseRaisingEntry)>>,
     <<Feed(<<"a">>, ResponseRaisingParse), Feed(<<"a", ":", "b">>, ResponseTwo)>>,
     <<Feed(<<"a">>, ResponseRaisingEntry), Feed(<<"a", ":", "b">>, ResponseRetry)>>,
     <<Feed(<<"a", ":", "b">>, ResponseRetry), Feed(<<"a">>, ResponseRaisingEntry)>>}

FetchAll == \E feeds \in FeedLists : fetch_all_feeds(feeds)
\* the Store calls made between fetches, on the stored article of EntryFull
\* in feed "a"
Touched == {r \in articles : r.id = MakeArticleId(EntryFull, <<"a">>)}
MarkStoredRead == \E r \in Touched : mark_read(r.id)
ToggleStored == \E r \in Touched : toggle_bookmark(r.id)
SetStoredInsight == \E r \in Touched : set_insight(r.id, <<"i">>)
SetStoredTranslation ==
    \E r \in Touched : set_translation(r.id, <<"t">>, <<"d">>)

NextFetch ==
    \/ FetchAll
    \/ MarkStoredRead
    \/ ToggleStored
    \/ SetStoredInsight
    \/ SetStoredTranslation

SpecFetch == Init /\ [][NextFetch]_vars

-----------------------------------------------------------------------------
(* Concurrent writers and readers (specification SpecThreads)              *)
(*                                                                         *)
(* Every thread has its own connection (threading.local).  A connection's  *)
(* INSERT opens a transaction and takes the database's write lock; while   *)
(* another connection holds it the statement waits in SQLite's busy        *)
(* handler (sqlite3.connect's default timeout of 5 s, against a lock held  *)
(* for one INSERT and its commit).  The change is private to the           *)
(* connection until commit() publishes it and releases the lock.  In WAL   *)
(* mode a SELECT reads the last committed state and waits for nothing.     *)
(***************************************************************************)

\* article_id=f"concurrent-{i}"
WriterId(w) == <<"concurrent", w>>

\* commit() left out: the connection's change is never published
CommitLost(committed, pending) == committed

\* commit(): the connection's table becomes the committed one; the connection
\* holds the write lock, so it was built on the latest committed state
Commit(committed, pending) == pending

\* _get_conn() and execute("INSERT OR IGNORE ...") of writer w
WriterExecute(w) ==
    /\ pc[w] = "start"
    /\ wlock = NoThread
    /\ conns' = GetConn(conns, w)
    /\ wlock' = w
    /\ tx' = [tx EXCEPT ![w] =
                InsertOrIgnore(articles,
                    NewArticleRow(WriterId(w), "f1", <<"a">>, <<"x">>, NULL,
                                  NULLT, now))]
    \* cursor.rowcount
    /\ tret' = [tret EXCEPT ![w] =
                  Cardinality(tx'[w]) - Cardinality(articles)]
    /\ pc' = [pc EXCEPT ![w] = "inserted"]
    /\ UNCHANGED <<storeVars, digestVars, now, last>>

\* commit() and return cursor.rowcount > 0 of writer w
WriterCommit(w) ==
    /\ pc[w] = "inserted"
    /\ articles' = Commit(articles, tx[w])
    /\ wlock' = NoThread
    /\ tx' = [tx EXCEPT ![w] = {}]
    /\ tret' = [tret EXCEPT ![w] = tret[w] > 0]
    /\ pc' = [pc EXCEPT ![w] = "done"]
    /\ UNCHANGED <<bookmarks, bm_seq, digestVars, now, last, conns>>

\* db.get_articles() of reader r
ReaderGetArticles(r) ==
    /\ pc[r] = "start"
    /\ conns' = GetConn(conns, r)
    /\ \E rows \in GetArticlesResults(articles, FALSE, FALSE, NoFeed, NULL,
                                      DefaultLimit) :
          \* the reader drops the list; its length is kept for observation
          tret' = [tret EXCEPT ![r] = Len(rows)]
    /\ pc' = [pc EXCEPT ![r] = "done"]
    /\ UNCHANGED <<storeVars, digestVars, now, last, wlock, tx>>

AllDone == \A t \in Threads : pc[t] = "done"

Write == \E w \in Writers : WriterExecute(w)
CommitWrite == \E w \in Writers : WriterCommit(w)
Read == \E r \in Readers : ReaderGetArticles(r)
\* the single-threaded get_articles() after every thread was joined
FinalRead ==
    /\ AllDone
    /\ get_articles(FALSE, FALSE, NoFeed, NULL, DefaultLimit)

NextThreads ==
    \/ Write
    \/ CommitWrite
    \/ Read
    \/ FinalRead

SpecThreads == Init /\ [][NextThreads]_vars

-----------------------------------------------------------------------------
(* Mutating calls from several threads (specification SpecCommit)          *)
(*                                                                         *)
(* A mutating call runs its statements on the calling thread's connection: *)
(* the first of them opens a transaction and takes the write lock, and the *)
(* changes stay private to the connection until commit().  A thread whose  *)
(* connection has no open transaction reads the committed tables.          *)
(***************************************************************************)

\* the threads that call the Store in this specification
Callers == {1, 2}

\* the mutating calls each thread makes, in order
Program(t) ==
    IF t = 1
    THEN <<"upsert_article", "mark_read", "set_insight", "set_translation",
           "set_translated_body", "delete_articles_by_feed">>
    ELSE <<"upsert_article", "toggle_bookmark", "set_bookmark_memo",
           "set_bookmark_tags", "save_digest", "toggle_bookmark">>

\* the committed tables
Tables ==
    [articles |-> articles, bookmarks |-> bookmarks, bm_seq |-> bm_seq,
     digests |-> digests, dg_seq |-> dg_seq]

\* what thread t's connection reads: its open transaction, else the
\* committed tables
View(t) == IF tx[t] = {} THEN Tables ELSE CHOOSE S \in tx[t] : TRUE

\* a call of a thread: n calls of its program were made before it; seen is
\* the article toggle_bookmark has read
Call(op, seen, n) == [op |-> op, seen |-> seen, n |-> n]

\* the number of calls thread t has returned from
Returned(t) ==
    IF conns[t].conn = NoConn THEN 0
    ELSE IF pc[t] = "start" THEN tret[t].n + 1 ELSE tret[t].n

\* the call thread t makes next, "none" at the end of its program
NextOp(t) ==
    IF Returned(t) < Len(Program(t)) THEN Program(t)[Returned(t) + 1]
    ELSE "none"

\* the statements of a mutating call, applied to the tables S its connection
\* sees; the calls act on article "a1" of feed "f1"
CallEffect(call, S, clock) ==
    CASE call.op = "upsert_article" ->
           [S EXCEPT !.articles =
               InsertOrIgnore(@, NewArticleRow("a1", "f1", <<"a">>, <<"x">>,
                                               NULL, NULLT, clock))]
      [] call.op = "mark_read" ->
           [S EXCEPT !.articles = UpdateRead(@, "a1")]
      [] call.op = "toggle_bookmark" ->
           \* new_state = not article.is_bookmarked, of the article read before
           IF \E r \in call.seen : ~Bool(r.is_bookmarked)
           THEN [S EXCEPT !.articles = UpdateBookmarked(@, "a1", 1),
                          !.bookmarks = InsertBookmark(@, S.bm_seq, "a1", clock),
                          !.bm_seq = @ + 1]
           ELSE [S EXCEPT !.articles = UpdateBookmarked(@, "a1", 0),
                          !.bookmarks = DeleteBookmark(@, "a1")]
      [] call.op = "set_insight" ->
           [S EXCEPT !.articles = UpdateInsight(@, "a1", <<"i">>)]
      [] call.op = "set_translation" ->
           [S EXCEPT !.articles = UpdateTranslation(@, "a1", <<"t">>, <<"d">>)]
      [] call.op = "set_translated_body" ->
           [S EXCEPT !.articles = UpdateTranslatedBody(@, "a1", <<"b">>)]
      [] call.op = "set_bookmark_memo" ->
           [S EXCEPT !.bookmarks = UpdateMemo(@, "a1", <<"m">>)]
      [] call.op = "set_bookmark_tags" ->
           [S EXCEPT !.bookmarks = UpdateTags(@, "a1", TagsValue(<< <<"t">> >>))]
      [] call.op = "delete_articles_by_feed" ->
           [S EXCEPT !.bookmarks = DeleteBookmarksOfFeed(@, S.articles, "f1"),
                     !.articles = DeleteArticlesOfFeed(@, "f1")]
      [] call.op = "save_digest" ->
           [S EXCEPT !.digests = SaveDigest(@, S.dg_seq, 1, 1, <<"x">>, clock),
                     !.dg_seq = @ + 1]

\* set_bookmark_tags returning without commit()
EndsWithCommitButTags(op) == op # "set_bookmark_tags"

\* the call's last statement before returning is self._get_conn().commit()
EndsWithCommit(op) == TRUE

\* toggle_bookmark: article = self.get_article(article_id); return False if
\* there is none
ToggleRead(t) ==
    /\ pc[t] = "start"
    /\ NextOp(t) = "toggle_bookmark"
    /\ LET seen == RowsById(View(t).articles, "a1")
       IN /\ tret' = [tret EXCEPT
                        ![t] = Call("toggle_bookmark", seen, Returned(t))]
          /\ pc' = [pc EXCEPT ![t] = IF seen = {} THEN "start" ELSE "read"]
    /\ conns' = GetConn(conns, t)
    /\ UNCHANGED <<storeVars, digestVars, now, last, wlock, tx>>

\* toggle_bookmark: the UPDATE and the INSERT or DELETE
ToggleExecute(t) ==
    /\ pc[t] = "read"
    /\ wlock = NoThread
    /\ (\E r \in tret[t].seen : ~Bool(r.is_bookmarked))
          => bm_seq < MaxBookmarkSeq
    /\ tx' = [tx EXCEPT ![t] = {CallEffect(tret[t], View(t), now)}]
    /\ wlock' = t
    /\ pc' = [pc EXCEPT ![t] = "executed"]
    /\ UNCHANGED <<storeVars, digestVars, now, last, conns, tret>>

\* the statements of any other mutating call
Execute(t) ==
    /\ pc[t] = "start"
    /\ NextOp(t) \notin {"none", "toggle_bookmark"}
    /\ wlock = NoThread
    /\ NextOp(t) = "save_digest" => dg_seq < MaxDigests
    /\ tret' = [tret EXCEPT ![t] = Call(NextOp(t), {}, Returned(t))]
    /\ tx' = [tx EXCEPT ![t] = {CallEffect(tret'[t], View(t), now)}]
    /\ wlock' = t
    /\ conns' = GetConn(conns, t)
    /\ pc' = [pc EXCEPT ![t] = "executed"]
    /\ UNCHANGED <<storeVars, digestVars, now, last>>

\* commit() and return
CommitReturn(t) ==
    /\ pc[t] = "executed"
    /\ IF EndsWithCommit(tret[t].op)
       THEN LET S == Commit(Tables, View(t))
            IN /\ articles' = S.articles
               /\ bookmarks' = S.bookmarks
               /\ bm_seq' = S.bm_seq
               /\ digests' = S.digests
               /\ dg_seq' = S.dg_seq
               /\ tx' = [tx EXCEPT ![t] = {}]
               /\ wlock' = NoThread
       ELSE UNCHANGED <<storeVars, digestVars, tx, wlock>>
    /\ pc' = [pc EXCEPT ![t] = "start"]
    /\ UNCHANGED <<now, last, conns, tret>>

\* thread t, between two of its calls, reads the tables: the rows of the
\* store as its connection sees them
ReadTables(t) ==
    /\ pc[t] = "start"
    /\ conns[t].conn # NoConn
    /\ last' = [op |-> "read", arg |-> t,
                ret |-> [articles |-> View(t).articles,
                         bookmarks |-> View(t).bookmarks,
                         digests |-> View(t).digests]]
    /\ UNCHANGED <<storeVars, digestVars, now, threadVars>>

NextCommit ==
    \/ \E t \in Callers : ToggleRead(t)
    \/ \E t \in Callers : ToggleExecute(t)
    \/ \E t \in Callers : Execute(t)
    \/ \E t \in Callers : CommitReturn(t)
    \/ \E t \in Callers : ReadTables(t)

SpecCommit == Init /\ [][NextCommit]_vars

-----------------------------------------------------------------------------
(* Connections of the threads (specification SpecConn) *)

\* connections a thread may make in all
MaxConnections == 2

\* the threads that call the Store in this specification
ConnThreads == {MainThread, 1, 2}

\* a Store call by thread t: every statement of it runs on self._get_conn()
StoreCall(t) ==
    /\ conns' = GetConn(conns, t)
    /\ last' = [op |-> "call", arg |-> t, ret |-> conns'[t].conn]
    /\ UNCHANGED <<storeVars, digestVars, now, pc, wlock, tx, tret>>

\* close() by thread t
close(t) ==
    /\ conns[t].made < MaxConnections
    /\ conns' = CloseConn(conns, t)
    /\ last' = [op |-> "close", arg |-> t, ret |-> conns[t].conn]
    /\ UNCHANGED <<storeVars, digestVars, now, pc, wlock, tx, tret>>

AnyCall == \E t \in ConnThreads : StoreCall(t)
AnyClose == \E t \in ConnThreads : close(t)

NextConn ==
    \/ AnyCall
    \/ AnyClose

SpecConn == Init /\ [][NextConn]_vars

-----------------------------------------------------------------------------
(* Claims about the Store's calls issued one at a time (specification Spec) *)

\* C1: after any sequence of Store calls, every article's bookmarked flag is
\* true if and only if a bookmarks row references its identifier.
C1_BookmarkFlagIffRow ==
    \A r \in articles :
        Bool(r.is_bookmarked) <=> (\E b \in bookmarks : b.article_id = r.id)

\* a toggle has just turned one article's bookmark off while another article
\* is still bookmarked
C1_Witness ==
    /\ last.op = "toggle_bookmark"
    /\ last.ret = FALSE
    /\ \E r \in articles : r.id = last.arg /\ r.is_bookmarked = 0
    /\ \E r \in articles : r.id # last.arg /\ r.is_bookmarked = 1
    /\ \E b \in bookmarks : b.article_id # last.arg

\* C2: upsert_article on an identifier already stored returns false and leaves
\* the tables as they were; on an absent identifier it adds exactly one row,
\* the one with that identifier, and returns true.
C2_UpsertFirstWriterWins ==
    [][last'.op = "upsert_article" =>
        IF \E r \in articles : r.id = last'.arg
        THEN /\ last'.ret = FALSE
             /\ articles' = articles
             /\ bookmarks' = bookmarks
        ELSE /\ last'.ret = TRUE
             /\ articles \subseteq articles'
             /\ Cardinality(articles') = Cardinality(articles) + 1
             /\ Cardinality(RowsById(articles', last'.arg)) = 1
             /\ bookmarks' = bookmarks]_vars

\* an upsert of a stored identifier has just returned false, and the stored row
\* carries state set after its first insertion
C2_Witness ==
    /\ last.op = "upsert_article"
    /\ last.ret = FALSE
    /\ \E r \in articles :
          /\ r.id = last.arg
          /\ r.is_read = 1
          /\ r.is_bookmarked = 1
          /\ r.insight # NULL

\* C7: delete_articles_by_feed(f) removes exactly the articles of feed f and
\* the bookmarks rows that reference them, returns the number of articles
\* removed, and get_bookmark_memo of a removed article then returns None.
C7_DeleteCascades ==
    [][last'.op = "delete_articles_by_feed" =>
        LET removed == {r \in articles : r.feed_name = last'.arg}
        IN /\ articles' = articles \ removed
           /\ bookmarks' = {b \in bookmarks :
                               b.article_id \notin {r.id : r \in removed}}
           /\ last'.ret = Cardinality(removed)
           /\ \A r \in removed : MemoResults(bookmarks', r.id) = {NULL}]_vars

\* a delete has just removed one article (the store has no article of that
\* feed any more) while a bookmarked article of the other feed remains with
\* its memo
C7_Witness ==
    /\ last.op = "delete_articles_by_feed"
    /\ last.ret = 1
    /\ bm_seq = 2
    /\ Cardinality(bookmarks) = 1
    /\ \E r \in articles : r.feed_name # last.arg /\ r.is_bookmarked = 1
    /\ \E b \in bookmarks : b.memo # NULL

-----------------------------------------------------------------------------
(* Claims about the queries *)

Range(f) == {f[i] : i \in DOMAIN f}

\* s occurs in text, character for character
Occurs(text, s) ==
    /\ text # NULL
    /\ \E i \in 1..(Len(text) - Len(s) + 1) : SubSeq(text, i, i + Len(s) - 1) = s

\* s occurs in text when ASCII letters are compared without regard to case
OccursFolded(text, s) ==
    /\ text # NULL
    /\ \E i \in 1..(Len(text) - Len(s) + 1) :
          \A k \in 1..Len(s) : Lower(text[i + k - 1]) = Lower(s[k])

SearchedColumns(r) ==
    {r.title, r.description, r.insight, r.translated_title, r.translated_desc}

\* C3: get_articles_by_tag(t) returns exactly the bookmarked articles whose
\* stored tag list has t as one whole comma-separated token.
C3_TagExactToken ==
    last.op = "get_articles_by_tag" =>
        Range(last.ret) =
            {r \in articles :
                \E b \in bookmarks :
                    /\ b.article_id = r.id
                    /\ b.tags # NULL
                    /\ last.arg \in Range(Split(b.tags))}

\* C4 as stated: an article is returned by get_articles(search=s) only if s
\* itself occurs in one of the five searched columns.
C4_SearchLiteral ==
    (last.op = "get_articles" /\ last.arg.search # NULL) =>
        \A r \in Range(last.ret) :
            \E col \in SearchedColumns(r) : Occurs(col, last.arg.search)

\* C4 amended: an article is returned by get_articles(search=s) only if s
\* occurs in one of the five searched columns when ASCII letters are compared
\* without regard to case; %, _ and the backslash in s match only themselves.
C4_SearchLiteralFolded ==
    (last.op = "get_articles" /\ last.arg.search # NULL) =>
        \A r \in Range(last.ret) :
            \E col \in SearchedColumns(r) : OccursFolded(col, last.arg.search)

\* a search for "%" over two stored articles has returned only the one whose
\* title holds a "%"
C4_Witness ==
    /\ last.op = "get_articles"
    /\ last.arg.search = <<"%">>
    /\ Cardinality(articles) = 2
    /\ Len(last.ret) = 1
    /\ last.ret[1].title = <<"a", "%", "b">>
    /\ \E r \in articles : r.title = <<"A", "b">>

\* C8: get_articles returns its rows by publish time descending, every row
\* without a publish time after all rows that have one, and rows with equal
\* (or both absent) publish time by fetch time descending.
C8_OrderNullsLast ==
    last.op = "get_articles" =>
        \A i \in DOMAIN last.ret : \A j \in DOMAIN last.ret :
            i < j =>
                LET a == last.ret[i]
                    b == last.ret[j]
                IN /\ a.published_at = NULLT => b.published_at = NULLT
                   /\ (a.published_at # NULLT /\ b.published_at # NULLT)
                        => a.published_at >= b.published_at
                   /\ a.published_at = b.published_at
                        => a.fetched_at >= b.fetched_at

\* three articles are listed: two dated ones, newest first, then the one
\* without a publish time although it was fetched last and after both dates
C8_Witness ==
    /\ last.op = "get_articles"
    /\ Len(last.ret) = 3
    /\ last.ret[1].published_at = 2
    /\ last.ret[2].published_at = 1
    /\ last.ret[3].published_at = NULLT
    /\ last.ret[3].fetched_at = 3
    /\ last.ret[1].fetched_at = 1

\* an article passes the filters of a get_articles call
Passes(r, q) ==
    /\ q.bookmarked_only => Bool(r.is_bookmarked)
    /\ q.unread_only => ~Bool(r.is_read)
    /\ q.feed_name # NoFeed => r.feed_name = q.feed_name
    /\ Truthy(q.search) =>
          \E col \in SearchedColumns(r) : OccursFolded(col, q.search)

\* C9: get_articles returns only articles that pass every enabled filter, no
\* more rows than the cap, and all passing articles when they do not exceed
\* the cap.
C9_FiltersConjunctive ==
    last.op = "get_articles" =>
        LET passing == {r \in articles : Passes(r, last.arg)}
        IN /\ Range(last.ret) \subseteq passing
           /\ Len(last.ret) <= last.arg.limit
           /\ Cardinality(passing) <= last.arg.limit
                => (Range(last.ret) = passing
                    /\ Len(last.ret) = Cardinality(passing))

\* all four filters are enabled with a cap of one: two articles pass them, one
\* is returned
C9_Witness ==
    /\ last.op = "get_articles"
    /\ last.arg.bookmarked_only
    /\ last.arg.unread_only
    /\ last.arg.feed_name = "f1"
    /\ last.arg.search = <<"a">>
    /\ last.arg.limit = 1
    /\ Cardinality({r \in articles : Passes(r, last.arg)}) = 2
    /\ Len(last.ret) = 1

-----------------------------------------------------------------------------
(* More claims about the Store's calls issued one at a time (Spec) *)

\* C18: toggle_bookmark on a stored article returns the negation of its
\* bookmarked flag, and afterwards the flag has the returned value and a
\* bookmarks row exists exactly if it is true; a toggle that follows a toggle
\* of the same article returns the negation of what that one returned, so that
\* flag and row are as before the two; on an unknown identifier it returns
\* false and changes neither table.
C18_ToggleInvolution ==
    [][last'.op = "toggle_bookmark" =>
        LET id == last'.arg
        IN IF \E r \in articles : r.id = id
           THEN /\ \A r \in articles :
                      r.id = id => last'.ret = (r.is_bookmarked = 0)
                /\ \A r \in articles' :
                      r.id = id => r.is_bookmarked = BoolToInt(last'.ret)
                /\ (\E b \in bookmarks' : b.article_id = id) = last'.ret
                /\ {r.id : r \in articles'} = {r.id : r \in articles}
                /\ (last.op = "toggle_bookmark" /\ last.arg = id)
                      => last'.ret = ~last.ret
           ELSE /\ last'.ret = FALSE
                /\ articles' = articles
                /\ bookmarks' = bookmarks]_vars

\* an article bookmarked and un-bookmarked again: the second toggle returned
\* false, the flag is clear and the bookmarks row is gone
C18_Witness ==
    /\ last.op = "toggle_bookmark"
    /\ last.ret = FALSE
    /\ bm_seq = 1
    /\ \E r \in articles : r.id = last.arg /\ r.is_bookmarked = 0
    /\ ~\E b \in bookmarks : b.article_id = last.arg

\* C19: for an identifier without a bookmarks row, set_bookmark_memo and
\* set_bookmark_tags leave both tables unchanged, get_bookmark_memo returns
\* None and get_bookmark_tags returns the empty list.
C19_NoBookmarkNoMemoTags ==
    [][(~\E b \in bookmarks : b.article_id = last'.arg) =>
        /\ last'.op \in {"set_bookmark_memo", "set_bookmark_tags"}
              => (articles' = articles /\ bookmarks' = bookmarks)
        /\ last'.op = "get_bookmark_memo" => last'.ret = NULL
        /\ last'.op = "get_bookmark_tags" => last'.ret = <<>>]_vars

\* a memo was set on a stored article that had been bookmarked and
\* un-bookmarked: no bookmarks row holds it
C19_Witness ==
    /\ last.op = "set_bookmark_memo"
    /\ bm_seq = 1
    /\ \E r \in articles : r.id = last.arg /\ r.is_bookmarked = 0
    /\ bookmarks = {}

-----------------------------------------------------------------------------
(* Claims about the digest cache (specification SpecDigest) *)

\* the digests rows of a period that are the most recent by creation time
NewestOfPeriod(p) ==
    {d \in digests :
        /\ d.period_days = p
        /\ \A e \in digests : e.period_days = p => e.created_at <= d.created_at}

\* C5: when the latest digests row of the period is less than a day old,
\* get_or_generate_digest returns its content and article count, calls no
\* provider and adds no row; a call that follows a successful call for the
\* same period returns the same content and count without a provider call.
C5_FreshDigestServed ==
    [][last'.op = "get_or_generate_digest" =>
        /\ (\E d \in NewestOfPeriod(last'.arg.period_days) :
                now - d.created_at < TicksPerDay)
            => /\ last'.ret.status = "ok"
               /\ \E d \in NewestOfPeriod(last'.arg.period_days) :
                     /\ last'.ret.content = d.content
                     /\ last'.ret.count = d.article_count
               /\ last'.ret.ai = 0
               /\ digests' = digests
        /\ (/\ last.op = "get_or_generate_digest"
            /\ last.ret.status = "ok"
            /\ last.arg.period_days = last'.arg.period_days)
            => /\ last'.ret.status = "ok"
               /\ last'.ret.content = last.ret.content
               /\ last'.ret.count = last.ret.count
               /\ last.ret.ai + last'.ret.ai <= 1]_vars

\* a call made a tick after the digest was saved is served the saved row: it
\* reports one article although two are now recent and two were asked for
C5_Witness ==
    /\ last.op = "get_or_generate_digest"
    /\ last.ret.status = "ok"
    /\ last.ret.ai = 0
    /\ last.ret.count = 1
    /\ last.arg.max_articles = 2
    /\ ~last.arg.bookmarked_only
    /\ Cardinality(articles) = 2
    /\ \E d \in digests :
          /\ d.period_days = last.arg.period_days
          /\ d.created_at < now
          /\ d.article_count = 1

\* C10: with no fresh digest for the period and no candidate article,
\* get_or_generate_digest fails with the no-articles error, calls no provider
\* and leaves the digests table unchanged.
C10_NoArticlesError ==
    [][last'.op = "get_or_generate_digest" =>
        ((/\ \A d \in NewestOfPeriod(last'.arg.period_days) :
                now - d.created_at >= TicksPerDay
          /\ \A c \in DigestCandidates(articles, bookmarks, now,
                                       last'.arg.period_days,
                                       last'.arg.max_articles,
                                       last'.arg.bookmarked_only) : c = {})
            => /\ last'.ret.status = "no_articles"
               /\ last'.ret.ai = 0
               /\ digests' = digests)]_vars

\* a bookmarked-only call has failed with the no-articles error while articles
\* are stored and a digest of the period, now a day old, exists
C10_Witness ==
    /\ last.op = "get_or_generate_digest"
    /\ last.ret.status = "no_articles"
    /\ last.arg.bookmarked_only
    /\ articles # {}
    /\ \E d \in digests :
          /\ d.period_days = last.arg.period_days
          /\ now - d.created_at >= TicksPerDay

\* no digests row of the period is less than a day old
NoFreshDigest(p) ==
    \A d \in NewestOfPeriod(p) : now - d.created_at >= TicksPerDay

\* every candidate list the call can gather holds an article
HasCandidates(p, m, b) ==
    \A c \in DigestCandidates(articles, bookmarks, now, p, m, b) : c # {}

\* C11: with no fresh digest for the period and candidates at hand,
\* get_or_generate_digest calls generate_digest; whenever generate_digest
\* returns None (the provider is unavailable or returned None) or an empty
\* text, the call fails with the generation error and leaves the digests table
\* unchanged; the call made next for the same period is not served from the
\* cache: with candidates at hand it calls generate_digest again.
C11_FailureNotCached ==
    [][last'.op = "get_or_generate_digest" =>
        LET p == last'.arg.period_days
            m == last'.arg.max_articles
            b == last'.arg.bookmarked_only
        IN /\ (NoFreshDigest(p) /\ HasCandidates(p, m, b))
               => last'.ret.gen # NotCalled
           /\ (last'.ret.gen # NotCalled /\ ~Truthy(last'.ret.gen))
               => /\ last'.ret.status = "generation_failed"
                  /\ digests' = digests
           /\ (/\ last.op = "get_or_generate_digest"
               /\ last.ret.status = "generation_failed"
               /\ last.arg.period_days = p)
               => /\ last'.ret.status = "ok" => last'.ret.ai = 1
                  /\ HasCandidates(p, m, b) => last'.ret.gen # NotCalled]_vars

\* an available provider has returned nothing for stored articles, the call
\* has failed with the generation error and the only digest of the period is
\* still the one that was a day old
C11_Witness ==
    /\ last.op = "get_or_generate_digest"
    /\ last.ret.status = "generation_failed"
    /\ last.ret.ai = 1
    /\ last.ret.gen = <<>>
    /\ articles # {}
    /\ Cardinality({d \in digests :
                        d.period_days = last.arg.period_days}) = 1
    /\ NoFreshDigest(last.arg.period_days)

\* the articles a digest of period p may be made of: with bookmarked_only
\* those bookmarked within the period, otherwise those published (or, without
\* a publication time, fetched) within it
Eligible(p, b) ==
    IF b
    THEN {r \in articles :
             \E k \in bookmarks :
                 /\ k.article_id = r.id
                 /\ k.bookmarked_at >= now - p * TicksPerDay}
    ELSE {r \in articles :
             (IF r.published_at = NULLT THEN r.fetched_at ELSE r.published_at)
                 >= now - p * TicksPerDay}

\* C12: with no fresh digest for the period, candidates at hand and a
\* generated text that is not empty, get_or_generate_digest adds exactly one
\* digests row, of that period, holding the generated text and the number of
\* candidates used (the eligible articles, at most max_articles), returns that
\* text and number, and the row is the latest digest of the period afterwards.
C12_GeneratedDigestSaved ==
    [][last'.op = "get_or_generate_digest" =>
        LET p == last'.arg.period_days
            m == last'.arg.max_articles
            b == last'.arg.bookmarked_only
            n == Cardinality(Eligible(p, b))
        IN (/\ NoFreshDigest(p)
            /\ n > 0
            /\ last'.ret.gen # NotCalled
            /\ Truthy(last'.ret.gen))
            => /\ last'.ret.status = "ok"
               /\ last'.ret.content = last'.ret.gen
               /\ last'.ret.count = (IF n <= m THEN n ELSE m)
               /\ Cardinality(digests' \ digests) = 1
               /\ digests \subseteq digests'
               /\ \A d \in digests' \ digests :
                     /\ d.period_days = p
                     /\ d.content = last'.ret.gen
                     /\ d.article_count = last'.ret.count
                     /\ LatestDigests(digests', p) = {d}]_vars

\* a bookmarked-only digest was generated from the one bookmarked article of
\* two recent ones, with room for two, and saved next to the older digest of
\* the period
C12_Witness ==
    /\ last.op = "get_or_generate_digest"
    /\ last.ret.status = "ok"
    /\ last.ret.ai = 1
    /\ last.arg.bookmarked_only
    /\ last.arg.max_articles = 2
    /\ last.ret.count = 1
    /\ Cardinality(articles) = 2
    /\ Cardinality({d \in digests :
                        d.period_days = last.arg.period_days}) = 2
    /\ \E d \in digests : d.created_at = now /\ d.article_count = 1

-----------------------------------------------------------------------------
(* Claims about the feed fetcher (specification SpecFetch) *)

\* the entries before the first one that raises
RECURSIVE BeforeRaise(_)
BeforeRaise(entries) ==
    IF entries = <<>> \/ Head(entries).raises THEN <<>>
    ELSE <<Head(entries)>> \o BeforeRaise(Tail(entries))

\* the entries a feed delivers: those of the first parse, or of the retry
\* when the first parse is flagged and empty
Delivered(feed) ==
    IF feed.response.parse_raises THEN <<>>
    ELSE IF feed.response.first.bozo /\ feed.response.first.entries = <<>>
         THEN feed.response.retry.entries
         ELSE feed.response.first.entries

\* fetching or reconciling the feed fails
Fails(feed) ==
    \/ feed.response.parse_raises
    \/ \E i \in DOMAIN Delivered(feed) : Delivered(feed)[i].raises

\* the identifiers of the entries of a feed list that are reconciled: feed
\* name, colon, and the guid or without a guid the link
ReconciledIds(feeds) ==
    UNION {{feeds[i].name \o <<":">>
              \o (IF e.id # NULL /\ e.id # <<>> THEN e.id
                  ELSE IF e.link = NULL THEN <<>> ELSE e.link) :
            e \in Range(BeforeRaise(Delivered(feeds[i])))} :
           i \in DOMAIN feeds}

\* C13: fetch_all_feeds never raises and returns a count; fetch_feed is
\* called for every feed of the list in order, and the entries of every feed,
\* up to the feed's own failure, are stored afterwards whatever happened to
\* the feeds before it.
C13_BatchSurvivesFailure ==
    last.op = "fetch_all_feeds" =>
        /\ ~last.ret.raised
        /\ last.ret.total_new \in Nat
        /\ last.ret.attempted = [i \in DOMAIN last.arg |-> last.arg[i].name]
        /\ ReconciledIds(last.arg) \subseteq {r.id : r \in articles}

\* the first of two feeds failed and the second added its entry
C13_Witness ==
    /\ last.op = "fetch_all_feeds"
    /\ Len(last.arg) = 2
    /\ Fails(last.arg[1])
    /\ ~Fails(last.arg[2])
    /\ last.ret.total_new = 1
    /\ \E r \in articles : r.feed_name = last.arg[2].name

\* C14: the number fetch_all_feeds returns is the number of articles rows the
\* call added.
C14_CountEqualsAdded ==
    [][last'.op = "fetch_all_feeds" =>
        last'.ret.total_new = Cardinality(articles') - Cardinality(articles)]_vars

\* C15: the rows of reconciled entries are stored under the identifier made
\* of feed name and guid (or link); a fetch_all_feeds whose reconciled entries
\* are all stored already, and one that repeats the call before it, returns 0
\* and leaves the articles and bookmarks tables as they were.
C15_RefetchIdempotent ==
    [][last'.op = "fetch_all_feeds" =>
        /\ ReconciledIds(last'.arg) \subseteq {r.id : r \in articles'}
        /\ (\/ ReconciledIds(last'.arg) \subseteq {r.id : r \in articles}
            \/ (last.op = "fetch_all_feeds" /\ last.arg = last'.arg))
            => /\ last'.ret.total_new = 0
               /\ articles' = articles
               /\ bookmarks' = bookmarks]_vars

\* a feed list was fetched again after its article had been read, bookmarked
\* and given an insight and a translation: nothing is new and the article
\* keeps all four
C15_Witness ==
    /\ last.op = "fetch_all_feeds"
    /\ last.ret.total_new = 0
    /\ \E r \in articles :
          /\ r.id \in ReconciledIds(last.arg)
          /\ r.is_read = 1
          /\ r.is_bookmarked = 1
          /\ r.insight = <<"i">>
          /\ r.translated_title = <<"t">>
          /\ \E k \in bookmarks : k.article_id = r.id

-----------------------------------------------------------------------------
(* Claims about mutating calls from several threads (specification SpecCommit) *)

\* the committed rows of the three tables
CommittedRows ==
    [articles |-> articles, bookmarks |-> bookmarks, digests |-> digests]

\* C16: when a mutating call returns, the committed tables are the tables
\* before it with the call's statements applied, its connection has no open
\* transaction and the write lock is free; a thread that is not inside a call
\* never has an open transaction; and a read by any thread between its calls
\* returns the committed rows, those left by the calls that have returned.
C16_CommitBeforeReturn ==
    [][/\ \A t \in Callers :
            (pc[t] = "executed" /\ pc'[t] = "start")
              => /\ Tables' = CallEffect(tret[t], Tables, now)
                 /\ tx'[t] = {}
                 /\ wlock' = NoThread
       /\ \A t \in Callers : pc'[t] # "executed" => tx'[t] = {}
       /\ (last' # last /\ last'.op = "read") => last'.ret = CommittedRows]_vars

\* thread 2 has read the article as thread 1 left it, read and with its
\* insight, while thread 1's set_translation is executed but not committed:
\* the translation is not in what thread 2 read
C16_Witness ==
    /\ last.op = "read"
    /\ last.arg = 2
    /\ pc[1] = "executed"
    /\ tret[1].op = "set_translation"
    /\ \E S \in tx[1] : \E r \in S.articles : r.translated_title = <<"t">>
    /\ \E r \in last.ret.articles :
          /\ r.is_read = 1
          /\ r.insight = <<"i">>
          /\ r.translated_title = NULL
    /\ last.ret = CommittedRows

-----------------------------------------------------------------------------
(* Claims about the threads' connections (specification SpecConn) *)

\* C17: a Store call by a thread whose slot is empty makes a connection of
\* that thread's own, a call by a thread that has one runs on that same
\* connection, and no call touches another thread's slot; the connection a
\* call runs on, and the one a close() closes, was made by the calling thread,
\* and at no time do two threads hold the same connection.
C17_ConnectionPerThread ==
    [][/\ last'.op = "call" =>
            LET t == last'.arg
            IN /\ last'.ret = conns'[t].conn
               /\ last'.ret # NoConn
               /\ last'.ret[1] = t
               /\ IF conns[t].conn = NoConn
                  THEN /\ conns'[t].made = conns[t].made + 1
                       /\ \A u \in DOMAIN conns : conns[u].conn # last'.ret
                  ELSE conns'[t] = conns[t]
               /\ \A u \in DOMAIN conns \ {t} : conns'[u] = conns[u]
       /\ last'.op = "close" => last'.ret \in {NoConn} \cup {<<last'.arg, k>> : k \in 1..MaxConnections}
       /\ \A t, u \in DOMAIN conns' :
            (t # u /\ conns'[t].conn # NoConn) => conns'[t].conn # conns'[u].conn
       /\ \A t \in DOMAIN conns' :
            conns'[t].conn # NoConn => conns'[t].conn[1] = t]_vars

\* thread 1 has closed its first connection and called again, on a second
\* connection of its own, while thread 2 and the constructing thread hold theirs
C17_Witness ==
    /\ last.op = "call"
    /\ last.arg = 1
    /\ last.ret = <<1, 2>>
    /\ conns[2].conn = <<2, 1>>
    /\ conns[MainThread].conn = <<MainThread, 1>>

-----------------------------------------------------------------------------
(* Claims about concurrent calls (specification SpecThreads) *)

\* C6: when the writer threads each upsert a distinct identifier while reader
\* threads call get_articles, no call is ever stuck (a thread that has not
\* finished can take its next step, or waits for a lock whose holder can), and
\* once all have finished every upsert has returned true and get_articles
\* returns exactly one row per writer.
C6_NoLostWrite ==
    /\ \A t \in Threads :
          pc[t] # "done" =>
              \/ t \in Readers
              \/ pc[t] = "inserted"
              \/ wlock = NoThread
              \/ (wlock \in Writers /\ pc[wlock] = "inserted")
    /\ AllDone =>
          /\ {r.id : r \in articles} = {WriterId(w) : w \in Writers}
          /\ Cardinality(articles) = NumWriters
          /\ \A w \in Writers : tret[w] = TRUE
    /\ last.op = "get_articles" =>
          /\ Len(last.ret) = NumWriters
          /\ {last.ret[i].id : i \in DOMAIN last.ret}
                = {WriterId(w) : w \in Writers}

\* all threads have finished and the final get_articles has returned one row
\* per writer, after one reader saw a single row and another saw none
C6_Witness ==
    /\ AllDone
    /\ last.op = "get_articles"
    /\ Len(last.ret) = NumWriters
    /\ \E r \in Readers : tret[r] = 1
    /\ \E r \in Readers : tret[r] = 0

-----------------------------------------------------------------------------
(* Claims about tag lists written and read back (SpecTagList) *)

NoComma(tags) ==
    \A i \in DOMAIN tags : \A j \in DOMAIN tags[i] : tags[i][j] # ","

HasBookmark(id) == \E b \in bookmarks : b.article_id = id

\* what the steps after set_bookmark_tags(id, []) on a bookmarked article
\* show: NULL is stored, and the article is in no tag listing
ClearedAfterEmptyList ==
    last.tags = <<>> =>
        /\ \A b \in bookmarks : b.article_id = last.arg => b.tags = NULL
        /\ (last'.op = "get_bookmark_tags" /\ last'.arg = last.arg)
              => last'.ret = <<>>
        /\ last'.op = "get_all_bookmark_tags"
              => last.arg \notin DOMAIN last'.ret
        /\ last'.op = "get_all_tags"
              => last'.ret =
                   GetAllTags({b \in bookmarks : b.article_id # last.arg})

\* C20 as stated: for a bookmarked article and every list of tag strings,
\* get_bookmark_tags right after set_bookmark_tags(tags) returns the trimmed,
\* non-empty elements of tags in the same order; after an empty list NULL is
\* stored, get_bookmark_tags returns [], and the article is neither a key of
\* get_all_bookmark_tags nor a source of get_all_tags.
C20_TagsRoundTrip ==
    [][(last.op = "set_bookmark_tags" /\ HasBookmark(last.arg)) =>
          /\ (last'.op = "get_bookmark_tags" /\ last'.arg = last.arg)
                => last'.ret = StripNonEmpty(last.tags)
          /\ ClearedAfterEmptyList]_vars

\* C20 amended: the same, for every list of tag strings none of which
\* contains a comma.
C20_TagsRoundTripNoComma ==
    [][(last.op = "set_bookmark_tags" /\ HasBookmark(last.arg)) =>
          /\ (/\ NoComma(last.tags)
              /\ last'.op = "get_bookmark_tags"
              /\ last'.arg = last.arg)
                => last'.ret = StripNonEmpty(last.tags)
          /\ ClearedAfterEmptyList]_vars

\* get_bookmark_tags has returned two tags in the order they were given, while
\* the other article is bookmarked without tags
C20_Witness ==
    /\ last.op = "get_bookmark_tags"
    /\ last.ret = << <<"a">>, <<"a", "a">> >>
    /\ \E b \in bookmarks : b.article_id # last.arg /\ b.tags = NULL
    /\ \E b \in bookmarks :
          b.article_id = last.arg /\ b.tags = <<"a", ",", "a", "a">>

-----------------------------------------------------------------------------
(* The insight cache (specification SpecInsight) *)

\* t("claude_cli_not_found") and t("insight_failed"), the messages returned
\* in place of an insight
NotFoundText == <<"claude_cli_not_found">>
InsightFailedText == <<"insight_failed">>

\* generate_insight: None without calling provider.generate when the provider
\* is unavailable, otherwise what provider.generate returns
GenerateInsight(available, generated) ==
    IF ~available THEN [called |-> FALSE, text |-> NULL]
    ELSE [called |-> TRUE, text |-> generated]

\* get_or_generate_insight that saves whatever text it is about to return
InsightOutcomeStoresMessage(article, T, available, available_again, generated) ==
    IF Truthy(article.insight)
    THEN [T |-> T, text |-> article.insight, called |-> FALSE]
    ELSE IF ~available
    THEN [T |-> UpdateInsight(T, article.id, NotFoundText),
          text |-> NotFoundText, called |-> FALSE]
    ELSE LET insight == GenerateInsight(available_again, generated)
         IN IF Truthy(insight.text)
            THEN [T |-> UpdateInsight(T, article.id, insight.text),
                  text |-> insight.text, called |-> insight.called]
            ELSE [T |-> UpdateInsight(T, article.id, InsightFailedText),
                  text |-> InsightFailedText, called |-> insight.called]

\* get_or_generate_insight(article, db, provider): the table afterwards, the
\* text returned and whether provider.generate was called; available and
\* available_again are the answers of the two provider.is_available() calls
InsightOutcome(article, T, available, available_again, generated) ==
    IF Truthy(article.insight)
    THEN [T |-> T, text |-> article.insight, called |-> FALSE]
    ELSE IF ~available
    THEN [T |-> T, text |-> NotFoundText, called |-> FALSE]
    ELSE LET insight == GenerateInsight(available_again, generated)
         IN IF Truthy(insight.text)
            THEN [T |-> UpdateInsight(T, article.id, insight.text),
                  text |-> insight.text, called |-> insight.called]
            ELSE [T |-> T, text |-> InsightFailedText,
                  called |-> insight.called]

\* the article handed over is the row just read with get_article
get_or_generate_insight(article, available, available_again, generated) ==
    LET out == InsightOutcome(article, articles, available, available_again,
                              generated)
    IN /\ articles' = out.T
       /\ last' = [op |-> "get_or_generate_insight", arg |-> article.id,
                   ret |-> [text |-> out.text, called |-> out.called,
                            available |-> available /\ available_again,
                            generated |-> generated]]
       /\ UNCHANGED <<bookmarks, bm_seq, digestVars, now, threadVars>>

\* what provider.generate can return: None, '' or a text
InsightTexts == {NULL, <<>>, <<"i">>, <<"j">>}

GetOrGenerateInsight ==
    \E article \in articles, available \in BOOLEAN,
       available_again \in BOOLEAN, generated \in InsightTexts :
        get_or_generate_insight(article, available, available_again, generated)

NextInsight ==
    \/ UpsertPlain
    \/ MarkRead
    \/ GetOrGenerateInsight

SpecInsight == Init /\ [][NextInsight]_vars

-----------------------------------------------------------------------------
(* Claims about the insight cache (SpecInsight) *)

InsightMessages == {NotFoundText, InsightFailedText}

\* the insight the Store holds for an article
StoredInsight(T, id) == (CHOOSE r \in T : r.id = id).insight

\* C21: get_or_generate_insight calls the provider only when the article has
\* no cached insight; it writes the insight only when generation returned
\* non-empty text and never writes the message it returns on failure; a call
\* after a failure generates again when the provider answers, a call after a
\* success returns the cached text without calling the provider.
C21_InsightCachedOnSuccessOnly ==
    [][last'.op = "get_or_generate_insight" =>
          LET id == last'.arg
              out == last'.ret
          IN /\ out.called => ~Truthy(StoredInsight(articles, id))
             /\ articles' # articles =>
                   /\ out.called /\ Truthy(out.generated)
                   /\ articles' = UpdateInsight(articles, id, out.generated)
             /\ out.text \in InsightMessages =>
                   /\ articles' = articles
                   /\ ~Truthy(StoredInsight(articles', id))
             /\ (last.op = "get_or_generate_insight" /\ last.arg = id) =>
                   /\ (last.ret.text \in InsightMessages /\ out.available)
                         => out.called
                   /\ last.ret.text \notin InsightMessages
                         => (~out.called /\ out.text = last.ret.text)]_vars

\* a call that followed a successful generation: the cached text is returned
\* and the provider, though it would have answered otherwise, was not called
C21_Witness ==
    /\ last.op = "get_or_generate_insight"
    /\ ~last.ret.called
    /\ last.ret.available
    /\ last.ret.text = <<"i">>
    /\ last.ret.generated = <<"j">>
    /\ StoredInsight(articles, last.arg) = <<"i">>

-----------------------------------------------------------------------------
(* Network fetches and certificate verification (specification SpecSsl) *)

\* the SSL contexts fetch_feed hands to feedparser.parse, in order: the
\* default one, then _make_ssl_handler() when the first result is bozo and
\* has no entries; fetch_feed has no allow_insecure_ssl to consult
FeedAttempts(response) ==
    IF response.parse_raises THEN <<"verified">>
    ELSE IF response.first.bozo /\ response.first.entries = <<>>
    THEN <<"verified", "insecure">>
    ELSE <<"verified">>

\* fetch_article_text(url, allow_insecure_ssl=...): what is returned and the
\* SSL contexts _urlopen was called with; an answer is "error" or the length
\* of the text the extractor finds in the page
ArticleText(answer, allow_insecure_ssl) ==
    LET fetched ==
            IF answer.first # "error"
            THEN [html |-> answer.first, attempts |-> <<"verified">>]
            ELSE IF ~allow_insecure_ssl
            THEN [html |-> "error", attempts |-> <<"verified">>]
            ELSE [html |-> answer.insecure,
                  attempts |-> <<"verified", "insecure">>]
    IN [text |-> IF fetched.html = "error" THEN "fetch_error"
                 ELSE IF fetched.html = "empty" THEN "extract_error"
                 ELSE IF fetched.html = "long" THEN "truncated"
                 ELSE "text",
        attempts |-> fetched.attempts]

\* a fetch_feed call while the configuration holds allow_insecure_ssl
fetch_feed(feed, allow_insecure_ssl) ==
    LET result == FetchFeed(articles, feed, now)
    IN /\ articles' = result.T
       /\ last' = [op |-> "fetch_feed",
                   arg |-> [name |-> feed.name,
                            allow_insecure_ssl |-> allow_insecure_ssl],
                   ret |-> [new_count |-> result.new_count,
                            raised |-> result.raised,
                            attempts |-> FeedAttempts(feed.response)]]
       /\ UNCHANGED <<bookmarks, bm_seq, digestVars, now, threadVars>>

fetch_article_text(answer, allow_insecure_ssl) ==
    /\ last' = [op |-> "fetch_article_text",
                arg |-> [answer |-> answer,
                         allow_insecure_ssl |-> allow_insecure_ssl],
                ret |-> ArticleText(answer, allow_insecure_ssl)]
    /\ UNCHANGED <<storeVars, digestVars, now, threadVars>>

\* what the two _urlopen calls meet: an error, a page without text, a page
\* with text, a page with more than 10000 characters of text
Pages == {"error", "empty", "page", "long"}
Answers == [first : Pages, insecure : Pages]

SslFeeds ==
    {Feed(<<"a">>, ResponseTwo), Feed(<<"a">>, ResponseRaisingParse),
     Feed(<<"a">>, ResponseRaisingEntry), Feed(<<"b">>, ResponseRetry),
     Feed(<<"b">>, ResponseTwice)}

FetchFeedConfigured ==
    \E feed \in SslFeeds, allow_insecure_ssl \in BOOLEAN :
        fetch_feed(feed, allow_insecure_ssl)
FetchArticleText ==
    \E answer \in Answers, allow_insecure_ssl \in BOOLEAN :
        fetch_article_text(answer, allow_insecure_ssl)

NextSsl ==
    \/ FetchFeedConfigured
    \/ FetchArticleText

SpecSsl == Init /\ [][NextSsl]_vars

-----------------------------------------------------------------------------
(* Claims about certificate verification (SpecSsl) *)

Insecure(attempts) == \E i \in DOMAIN attempts : attempts[i] = "insecure"

\* the article-body half: fetch_article_text turns to the unverified context
\* only with allow_insecure_ssl set
ArticleFetchVerified ==
    (last.op = "fetch_article_text" /\ ~last.arg.allow_insecure_ssl)
        => ~Insecure(last.ret.attempts)

\* the feed half
FeedFetchVerified ==
    (last.op = "fetch_feed" /\ ~last.arg.allow_insecure_ssl)
        => ~Insecure(last.ret.attempts)

\* C22: with allow_insecure_ssl false no fetch, of an article body or of a
\* feed, is retried with certificate verification disabled.
C22_NoInsecureRetryUnlessAllowed == ArticleFetchVerified /\ FeedFetchVerified

-----------------------------------------------------------------------------
(* More claims about the order of get_articles (SpecOrder) *)

\* coalesce(published_at, fetched_at)
EffectiveKey(r) == IF r.published_at = NULLT THEN r.fetched_at ELSE r.published_at

\* C23: the rows get_articles returns are sorted on the single key
\* coalesce(publish time, fetch time), descending, so that an article without
\* a publish time stands where its fetch time puts it.
C23_OrderByEffectiveKey ==
    last.op = "get_articles" =>
        \A i \in DOMAIN last.ret : \A j \in DOMAIN last.ret :
            i < j => EffectiveKey(last.ret[i]) >= EffectiveKey(last.ret[j])

-----------------------------------------------------------------------------
(* toggle_bookmark called from two threads (specification SpecToggleRace) *)

\* the joined rows of get_recent_bookmarked_articles in the order
\* ORDER BY b.bookmarked_at DESC, b.id DESC, one article per bookmarks row
RECURSIVE BookmarkedList(_)
BookmarkedList(P) ==
    IF P = {} THEN <<>>
    ELSE LET first == CHOOSE p \in P :
                          \A q \in P \ {p} :
                              \/ p[2].bookmarked_at > q[2].bookmarked_at
                              \/ /\ p[2].bookmarked_at = q[2].bookmarked_at
                                 /\ p[2].id > q[2].id
         IN <<first[1]>> \o BookmarkedList(P \ {first})

\* get_recent_bookmarked_articles(days)
get_recent_bookmarked_articles(days) ==
    /\ last' = [op |-> "get_recent_bookmarked_articles", arg |-> days,
                ret |-> BookmarkedList(
                            RecentBookmarked(articles, bookmarks, days,
                                Cardinality(bookmarks) + 1, now))]
    /\ UNCHANGED <<storeVars, digestVars, now, threadVars>>

\* toggle_bookmark("a1") on thread t, first statement:
\* article = self.get_article(article_id); return False if there is none
ToggleGetArticle(t) ==
    /\ pc[t] = "start"
    /\ LET seen == RowsById(articles, "a1")
       IN /\ tret' = [tret EXCEPT ![t] = Call("toggle_bookmark", seen, 0)]
          /\ pc' = [pc EXCEPT ![t] = IF seen = {} THEN "start" ELSE "read"]
    /\ conns' = GetConn(conns, t)
    /\ UNCHANGED <<storeVars, digestVars, now, last, wlock, tx>>

\* calls made while no transaction is open
StoreArticle ==
    /\ wlock = NoThread
    /\ upsert_article("a1", "f1", <<"a">>, <<"x">>, NULL, NULLT)
TagStored ==
    /\ wlock = NoThread
    /\ set_bookmark_tags("a1", << <<"t">> >>)
ListByTag == get_articles_by_tag(<<"t">>)
ListRecentBookmarked == get_recent_bookmarked_articles(1)

NextToggleRace ==
    \/ StoreArticle
    \/ Tick
    \/ \E t \in Callers : ToggleGetArticle(t)
    \/ \E t \in Callers : ToggleExecute(t)
    \/ \E t \in Callers : CommitReturn(t)
    \/ TagStored
    \/ ListByTag
    \/ ListRecentBookmarked

SpecToggleRace == Init /\ [][NextToggleRace]_vars

-----------------------------------------------------------------------------
(* Claims about toggle_bookmark called from two threads (SpecToggleRace) *)

\* no article occurs twice in a list of rows
NoArticleTwice(rows) ==
    \A i \in DOMAIN rows : \A j \in DOMAIN rows :
        rows[i].id = rows[j].id => i = j

\* the second half alone: the joined queries return no article twice
JoinedQueriesReturnOnce ==
    last.op \in {"get_articles_by_tag", "get_recent_bookmarked_articles"}
        => NoArticleTwice(last.ret)

\* C24: whatever way toggle_bookmark calls of two threads on one article
\* interleave, the article has at most one bookmarks row, and neither
\* get_articles_by_tag nor get_recent_bookmarked_articles returns it twice.
C24_OneBookmarkRow ==
    /\ \A id \in Ids : Cardinality({b \in bookmarks : b.article_id = id}) <= 1
    /\ JoinedQueriesReturnOnce

-----------------------------------------------------------------------------
(* toggle_bookmark on one thread and delete_articles_by_feed on another    *)
(* (specification SpecToggleDelete)                                        *)

\* delete_articles_by_feed("f1") on thread t: the two DELETE statements
DeleteExecute(t) ==
    /\ pc[t] = "start"
    /\ wlock = NoThread
    /\ tret' = [tret EXCEPT ![t] = Call("delete_articles_by_feed", {}, 0)]
    /\ tx' = [tx EXCEPT ![t] = {CallEffect(tret'[t], Tables, now)}]
    /\ wlock' = t
    /\ conns' = GetConn(conns, t)
    /\ pc' = [pc EXCEPT ![t] = "executed"]
    /\ UNCHANGED <<storeVars, digestVars, now, last>>

NextToggleDelete ==
    \/ StoreArticle
    \/ Tick
    \/ \E t \in Callers : ToggleGetArticle(t)
    \/ \E t \in Callers : ToggleExecute(t)
    \/ \E t \in Callers : DeleteExecute(t)
    \/ \E t \in Callers : CommitReturn(t)
    \/ ListRecentBookmarked

SpecToggleDelete == Init /\ [][NextToggleDelete]_vars

-----------------------------------------------------------------------------
(* Claims about toggle_bookmark against delete_articles_by_feed            *)
(* (SpecToggleDelete)                                                      *)

\* C25: whatever way a toggle_bookmark of one thread and a
\* delete_articles_by_feed of another interleave, every bookmarks row refers
\* to an article that is stored.
C25_NoOrphanBookmark ==
    \A b \in bookmarks : \E r \in articles : r.id = b.article_id

-----------------------------------------------------------------------------
(* upsert_article of one id from several threads                          *)
(* (specification SpecUpsertRace)                                         *)

\* the title thread t hands over: the threads' rows differ
UpsertTitle(t) == IF t = 1 THEN <<"a">> ELSE <<"b">>

\* cursor.rowcount taken to be 1 whatever the INSERT did
RowcountAlwaysOne(T, row) == 1

\* cursor.rowcount of INSERT OR IGNORE: 1 if the row went in, 0 if ignored
Rowcount(T, row) == IF InsertOrIgnore(T, row) = T THEN 0 ELSE 1

\* the number of calls of thread t that have returned True
InsertedBy(t) == IF conns[t].conn = NoConn THEN 0 ELSE tret[t].inserted

\* thread t has returned from an upsert_article call
HasReturned(t) == IF conns[t].conn = NoConn THEN FALSE ELSE tret[t].returned

\* upsert_article("a1", ...) on thread t: the INSERT OR IGNORE, which waits
\* for the write lock
UpsertExecute(t) ==
    /\ pc[t] = "start"
    /\ wlock = NoThread
    /\ LET row == NewArticleRow("a1", "f1", UpsertTitle(t), <<"x">>, NULL,
                                NULLT, now)
       IN /\ tx' = [tx EXCEPT ![t] =
                      {[Tables EXCEPT !.articles = InsertOrIgnore(@, row)]}]
          /\ tret' = [tret EXCEPT ![t] =
                        [op |-> "upsert_article",
                         rowcount |-> Rowcount(articles, row),
                         inserted |-> InsertedBy(t),
                         returned |-> HasReturned(t)]]
    /\ wlock' = t
    /\ conns' = GetConn(conns, t)
    /\ pc' = [pc EXCEPT ![t] = "executed"]
    /\ UNCHANGED <<storeVars, digestVars, now, last>>

\* commit() and return cursor.rowcount > 0
UpsertCommitReturn(t) ==
    /\ pc[t] = "executed"
    /\ LET S == Commit(Tables, View(t))
       IN articles' = S.articles
    /\ tx' = [tx EXCEPT ![t] = {}]
    /\ wlock' = NoThread
    /\ tret' = [tret EXCEPT ![t].inserted =
                                 IF tret[t].rowcount > 0 THEN @ + 1 ELSE @,
                             ![t].returned = TRUE]
    /\ pc' = [pc EXCEPT ![t] = "start"]
    /\ UNCHANGED <<bookmarks, bm_seq, digestVars, now, last, conns>>

\* a thread reads the article between the upserts
ReadStored ==
    /\ last' = [op |-> "get_article", arg |-> "a1",
                ret |-> RowsById(articles, "a1")]
    /\ UNCHANGED <<storeVars, digestVars, now, threadVars>>

NextUpsertRace ==
    \/ \E t \in Writers : UpsertExecute(t)
    \/ \E t \in Writers : UpsertCommitReturn(t)
    \/ Tick
    \/ ReadStored

SpecUpsertRace == Init /\ [][NextUpsertRace]_vars

-----------------------------------------------------------------------------
(* Claims about upsert_article from several threads (SpecUpsertRace) *)

\* the threads that have returned from an upsert_article call
ReturnedUpsert == {t \in Writers : HasReturned(t)}

\* C26: when several threads upsert one article id concurrently, exactly one
\* of the calls returns True and exactly one row with the id is stored, the
\* row of the call that returned True.
C26_OneInsertedTrue ==
    /\ \A t \in Writers : InsertedBy(t) <= 1
    /\ Cardinality({t \in Writers : InsertedBy(t) = 1}) <= 1
    /\ ReturnedUpsert # {} =>
          /\ Cardinality({t \in Writers : InsertedBy(t) = 1}) = 1
          /\ Cardinality(RowsById(articles, "a1")) = 1
          /\ \A t \in Writers :
                InsertedBy(t) = 1 =>
                    \A r \in RowsById(articles, "a1") : r.title = UpsertTitle(t)

\* all writers have returned, their transactions having overlapped: one was
\* told True, the others False, and one row is stored
C26_Witness ==
    /\ ReturnedUpsert = Writers
    /\ \A t \in Writers : pc[t] = "start"
    /\ InsertedBy(2) = 1
    /\ \A t \in Writers \ {2} : InsertedBy(t) = 0
    /\ Cardinality(articles) = 1

-----------------------------------------------------------------------------
(* get_or_generate_digest called from two threads                          *)
(* (specification SpecDigestRace)                                          *)

\* get_or_generate_digest(db, provider, config) on thread t, up to the call
\* of generate_digest: the cache check and the candidate articles; the call
\* returns on a fresh cached digest and raises when there are no articles
DigestCheck(t, period_days, max_articles, bm_only) ==
    /\ pc[t] = "start"
    /\ \E candidates \in DigestCandidates(articles, bookmarks, now,
                                          period_days, max_articles, bm_only) :
          LET cached == LatestDigests(digests, period_days)
              served == cached # {} /\ \E d \in cached : IsFresh(d, now)
          IN /\ tret' = [tret EXCEPT ![t] =
                           [op |-> "get_or_generate_digest",
                            period_days |-> period_days,
                            count |-> Cardinality(candidates),
                            content |-> NULL]]
             /\ pc' = [pc EXCEPT ![t] =
                         IF served \/ candidates = {} THEN "start"
                         ELSE "generating"]
    /\ conns' = GetConn(conns, t)
    /\ UNCHANGED <<storeVars, digestVars, now, last, wlock, tx>>

\* content = generate_digest(articles, provider, period_days); the call
\* raises when there is no content
DigestGenerate(t, available, generated) ==
    /\ pc[t] = "generating"
    /\ LET content == GenerateDigest(available, generated)
       IN /\ tret' = [tret EXCEPT ![t].content = content]
          /\ pc' = [pc EXCEPT ![t] =
                      IF Truthy(content) THEN "generated" ELSE "start"]
    /\ UNCHANGED <<storeVars, digestVars, now, last, wlock, tx, conns>>

\* db.save_digest(period_days, len(articles), content) and return
DigestSave(t) ==
    /\ pc[t] = "generated"
    /\ wlock = NoThread
    /\ dg_seq < MaxDigests
    /\ digests' = SaveDigest(digests, dg_seq, tret[t].period_days,
                             tret[t].count, tret[t].content, now)
    /\ dg_seq' = dg_seq + 1
    /\ pc' = [pc EXCEPT ![t] = "start"]
    /\ UNCHANGED <<storeVars, now, last, wlock, tx, conns, tret>>

NextDigestRace ==
    \/ StoreArticle
    \/ Tick
    \/ \E t \in Callers, b \in BOOLEAN : DigestCheck(t, 1, 1, b)
    \/ \E t \in Callers, provider \in Providers :
          DigestGenerate(t, provider.available, provider.generated)
    \/ \E t \in Callers : DigestSave(t)

SpecDigestRace == Init /\ [][NextDigestRace]_vars

-----------------------------------------------------------------------------
(* Claims about get_or_generate_digest from two threads (SpecDigestRace) *)

FreshDigests(period_days) ==
    {d \in digests : d.period_days = period_days /\ IsFresh(d, now)}

\* C27: two threads calling get_or_generate_digest for one period while no
\* fresh digest exists get the provider invoked at most once, and at most
\* one fresh digests row of the period comes of the two calls.
C27_OneGenerationPerPeriod ==
    /\ Cardinality({t \in Callers : pc[t] = "generated"}) <= 1
    /\ Cardinality(FreshDigests(1)) <= 1

-----------------------------------------------------------------------------
(* The translate action (specification SpecTranslate) *)

\* t("translation_failed_short"), returned in place of a translated title
TranslationFailedText == <<"translation_failed_short">>

\* TRANSLATE_META_KEYS: "T:" stands for "Title:" and "D:" for "Description:"
TitleKey == <<"T", ":">>
DescKey == <<"D", ":">>

\* line.startswith(key)
StartsWith(line, key) ==
    Len(line) >= Len(key) /\ SubSeq(line, 1, Len(key)) = key

\* line[len(key):].strip()
AfterKey(line, key) == Strip(SubSeq(line, Len(key) + 1, Len(line)))

\* the loop of _parse_translation over output.split("\n"): a later line with
\* a key overwrites what an earlier one gave
RECURSIVE ParseLines(_, _, _)
ParseLines(lines, title, desc) ==
    IF lines = <<>> THEN [title |-> title, desc |-> desc]
    ELSE LET line == Strip(Head(lines))
         IN IF StartsWith(line, TitleKey)
            THEN ParseLines(Tail(lines), AfterKey(line, TitleKey), desc)
            ELSE IF StartsWith(line, DescKey)
            THEN ParseLines(Tail(lines), title, AfterKey(line, DescKey))
            ELSE ParseLines(Tail(lines), title, desc)

\* _parse_translation(output, fallback_title), the output given as its lines
ParseTranslation(lines, fallback_title) ==
    LET parsed == ParseLines(lines, <<>>, <<>>)
        first_line == Strip(lines[1])
    IN IF parsed.title # <<>> THEN parsed
       ELSE IF \/ first_line = <<>>
               \/ first_line = Strip(TitleKey)
               \/ first_line = <<"T">>
       THEN [parsed EXCEPT !.title = fallback_title]
       ELSE [parsed EXCEPT !.title = first_line]

\* translate_article_meta(title, description, provider): answer is what
\* provider.generate does, "raises", None or the lines of its output
TranslateArticleMeta(title, available, translatable, answer) ==
    IF ~available
    THEN [title |-> NotFoundText, desc |-> <<>>, how |-> "unavailable"]
    ELSE IF ~translatable
    THEN [title |-> <<>>, desc |-> <<>>, how |-> "no translation"]
    ELSE IF answer = <<"raises">> \/ ~Truthy(answer)
    THEN [title |-> TranslationFailedText, desc |-> <<>>, how |-> "failed"]
    ELSE LET parsed == ParseTranslation(answer, title)
         IN [title |-> parsed.title, desc |-> parsed.desc,
             how |-> "translated"]

\* action_translate on a listed article and the _do_translate worker it
\* starts; available and available_again are the answers of the two
\* is_available() calls
action_translate(article, available, available_again, translatable, answer) ==
    IF Truthy(article.translated_title)
    THEN /\ last' = [op |-> "action_translate", arg |-> article.id,
                     ret |-> "already_translated"]
         /\ UNCHANGED <<storeVars, digestVars, now, threadVars>>
    ELSE IF ~available
    THEN /\ last' = [op |-> "action_translate", arg |-> article.id,
                     ret |-> "claude_cli_not_found"]
         /\ UNCHANGED <<storeVars, digestVars, now, threadVars>>
    ELSE LET meta == TranslateArticleMeta(article.title, available_again,
                                          translatable, answer)
         IN /\ articles' = UpdateTranslation(articles, article.id,
                                             meta.title, meta.desc)
            /\ last' = [op |-> "action_translate", arg |-> article.id,
                        ret |-> meta.how]
            /\ UNCHANGED <<bookmarks, bm_seq, digestVars, now, threadVars>>

\* what provider.generate does: it raises, returns None or '', or an output
\* of one or two lines
TranslationAnswers ==
    {<<"raises">>, NULL, <<>>,
     << <<"T", ":", "x">>, <<"D", ":", "y">> >>,
     << <<"x">> >>,
     << <<"T", ":">>, <<"D", ":", "y">> >>,
     << <<" ">>, <<"T">> >>}

Translate ==
    \E article \in articles, available \in BOOLEAN,
       available_again \in BOOLEAN, translatable \in BOOLEAN,
       answer \in TranslationAnswers :
        action_translate(article, available, available_again, translatable,
                         answer)

NextTranslate ==
    \/ UpsertPlain
    \/ MarkRead
    \/ Translate

SpecTranslate == Init /\ [][NextTranslate]_vars

-----------------------------------------------------------------------------
(* Claims about the translate action (SpecTranslate) *)

StoredTranslatedTitle(id) == (CHOOSE r \in articles : r.id = id).translated_title

\* C28: the cached translation holds only text of a successful AI
\* translation: after a translate action in which the provider was
\* unavailable, the language needed no translation or the AI call failed,
\* the article has no cached translated title, so that the next translate
\* action attempts the translation again.
C28_TranslationCachedOnSuccessOnly ==
    /\ \A r \in articles :
          r.translated_title \notin {NotFoundText, TranslationFailedText}
    /\ (/\ last.op = "action_translate"
        /\ last.ret \in {"claude_cli_not_found", "unavailable",
                         "no translation", "failed"})
          => ~Truthy(StoredTranslatedTitle(last.arg))

-----------------------------------------------------------------------------
(* Claims about memo and tags across un-bookmarking (Spec) *)

\* the bookmarks rows of an article in a table
RowsOf(B, id) == {b \in B : b.article_id = id}

\* C29: a toggle_bookmark that turns the bookmark on leaves the article with
\* a row without memo and tags, whatever an earlier bookmark of the article
\* carried; memo and tags of a row change only by set_bookmark_memo and
\* set_bookmark_tags on its article, and until then get_bookmark_memo
\* returns None and get_bookmark_tags the empty list.
C29_RebookmarkStartsEmpty ==
    [][/\ (last'.op = "toggle_bookmark" /\ last'.ret = TRUE) =>
             /\ RowsOf(bookmarks', last'.arg) # {}
             /\ \A b \in RowsOf(bookmarks', last'.arg) :
                   b.memo = NULL /\ b.tags = NULL
             /\ MemoResults(bookmarks', last'.arg) = {NULL}
             /\ TagsResults(bookmarks', last'.arg) = {<<>>}
       /\ \A b \in bookmarks' :
             /\ (b.memo # NULL /\ ~\E a \in bookmarks :
                                      a.id = b.id /\ a.memo = b.memo)
                   => (last'.op = "set_bookmark_memo"
                          /\ last'.arg = b.article_id)
             /\ (b.tags # NULL /\ ~\E a \in bookmarks :
                                      a.id = b.id /\ a.tags = b.tags)
                   => (last'.op = "set_bookmark_tags"
                          /\ last'.arg = b.article_id)
       /\ (/\ last'.op = "get_bookmark_memo"
           /\ \A b \in RowsOf(bookmarks, last'.arg) : b.memo = NULL)
             => last'.ret = NULL
       /\ (/\ last'.op = "get_bookmark_tags"
           /\ \A b \in RowsOf(bookmarks, last'.arg) : b.tags = NULL)
             => last'.ret = <<>>]_vars

\* the only stored article is bookmarked for the second time, its first
\* bookmarks row is gone, and get_bookmark_memo has returned None
C29_Witness ==
    /\ last.op = "get_bookmark_memo"
    /\ last.ret = NULL
    /\ Cardinality(articles) = 1
    /\ bm_seq = 2
    /\ \E b \in bookmarks : b.article_id = last.arg /\ b.id = 2
    /\ Cardinality(bookmarks) = 1

-----------------------------------------------------------------------------
(* Claims about the key of the digest cache (SpecDigest) *)

\* the fresh digests rows of a period
FreshOfPeriod(period_days) ==
    {d \in digests : d.period_days = period_days /\ IsFresh(d, now)}

\* a call answered from the cache: a result without generate_digest called
ServedFromCache(ret) == ret.status = "ok" /\ ret.gen = NotCalled

\* C30: the digest cache is keyed by period_days alone: a call is answered
\* with a fresh row of its period whenever there is one, whatever its
\* max_articles and bookmarked_only and whatever articles and bookmarks are
\* stored, and a call is never answered from the cache when only rows of
\* other periods are fresh.
C30_CacheKeyIsPeriod ==
    [][last'.op = "get_or_generate_digest" =>
          LET fresh == FreshOfPeriod(last'.arg.period_days)
          IN /\ fresh # {} =>
                   /\ ServedFromCache(last'.ret)
                   /\ digests' = digests
                   /\ \E d \in fresh :
                         /\ last'.ret.content = d.content
                         /\ last'.ret.count = d.article_count
             /\ fresh = {} => ~ServedFromCache(last'.ret)]_vars

\* a bookmarked-only call for period 1 with no bookmark stored was answered
\* with the fresh row of period 1, a row that counts one article, while the
\* fresh row of period 2 counts two
C30_Witness ==
    /\ last.op = "get_or_generate_digest"
    /\ last.arg.period_days = 1
    /\ last.arg.bookmarked_only
    /\ bookmarks = {}
    /\ ServedFromCache(last.ret)
    /\ last.ret.count = 1
    /\ \E d \in FreshOfPeriod(2) : d.article_count = 2
    /\ Cardinality(articles) = 2

====
